---------------------------- MODULE Spec2Model ----------------------------
(***************************************************************************)
(* Transient bidirectional path tracer: state-machine model of             *)
(*   - Film::Film(const Properties &)            (src/src/librender/film.cpp) *)
(*   - BDPTRenderer::prepare / process / evaluate                           *)
(*   - BDPTProcess::processResult / develop                                 *)
(*                          (src/src/integrators/bdpt/bdpt_proc.cpp)        *)
(*                                                                         *)
(* Floating-point lengths (minBound, maxBound, binWidth, edge lengths) are  *)
(* modelled as integers in a common unit; spectra are modelled by whether   *)
(* they are zero.                                                           *)
(***************************************************************************)
EXTENDS Integers, Sequences, FiniteSets, TLC

VARIABLES
    \* ---- Film construction
    props,      \* the Properties handed to Film::Film
    film,       \* the constructed Film (or NoFilm before construction)
    stream,     \* the bytes Film::serialize wrote and the Film read back
    \* ---- BDPTRenderer (one worker)
    cfg,        \* BDPTConfiguration + scene facts, constant during a render
    pc,         \* position of the worker inside prepare()/process()/evaluate()
    stop,       \* the shared `stop' flag handed to process()
    depths,     \* maxDepth / emitterDepth / sensorDepth computed by process()
    loop,       \* loop counters of process(): pixel i, index j, adaptive counters
    pool,       \* MemoryPool m_pool: outstanding vertices and edges
    paths,      \* emitterSubpath / sensorSubpath of the current path sample
    ev,         \* locals of the running evaluate() call
    last,       \* what the last (s,t) iteration of evaluate() did
    drawn,      \* number of path samples drawn for each pixel of the tile
    \* ---- BDPTProcess (coordinator, several worker threads)
    coord,      \* film / light image / counters / timer owned by the coordinator
    mutex,      \* m_resultMutex
    thr,        \* per-thread position inside processResult()/develop()
    results     \* the work results the scheduler hands to processResult()

filmVars   == <<props, film, stream>>
renderVars == <<cfg, pc, stop, depths, loop, pool, paths, ev, last, drawn>>
coordVars  == <<coord, mutex, thr, results>>
vars       == <<props, film, stream, cfg, pc, stop, depths, loop, pool, paths,
                ev, last, drawn, coord, mutex, thr, results>>

(***************************************************************************)
(*                    32-bit integer arithmetic (int)                       *)
(***************************************************************************)
IntMax == 2147483647
IntMin == -IntMax - 1

\* a + b of two ints, two's-complement wrapped into [IntMin, IntMax]
AddWrap32(a, b) ==
    IF b > 0 /\ a > IntMax - b THEN (a - IntMax - 1) + (b - IntMax - 1)
    ELSE IF b < 0 /\ a < IntMin - b THEN (a + IntMax + 1) + (b + IntMax + 1)
    ELSE a + b

AddOverflows(a, b) ==
    \/ b > 0 /\ a > IntMax - b
    \/ b < 0 /\ a < IntMin - b

\* Signed overflow is undefined behaviour; the builds either wrap the sum
\* ("wrap") or carry the comparison out in a wider register ("wide").
OverflowOutcomes == {"wrap", "wide"}

\* off + size > limit, as the build evaluates it
SumExceeds(off, size, limit, ub) ==
    IF AddOverflows(off, size)
    THEN IF ub = "wrap" THEN AddWrap32(off, size) > limit
         ELSE (size > 0)         \* the exact sum: above IntMax, or below IntMin
    ELSE off + size > limit

(***************************************************************************)
(*                           Film::Film(props)                              *)
(***************************************************************************)
ESteadyState      == "ESteadyState"
ETransient        == "ETransient"
EBounce           == "EBounce"
ETransientEllipse == "ETransientEllipse"
DecompositionTypes == {ESteadyState, ETransient, EBounce, ETransientEllipse}

\* boost::to_lower_copy(props.getString("decomposition", "none"))
DecompositionOf(str) ==
    CASE str = "none"             -> ESteadyState
      [] str = "transient"        -> ETransient
      [] str = "bounce"           -> EBounce
      [] str = "transientellipse" -> ETransientEllipse
      [] OTHER                    -> "invalid"

\* the crop-window test of the constructor
InvalidCrop(p, ub) ==
    \/ p.cropOffsetX < 0
    \/ p.cropOffsetY < 0
    \/ p.cropWidth <= 0
    \/ p.cropHeight <= 0
    \/ SumExceeds(p.cropOffsetX, p.cropWidth, p.width, ub)
    \/ SumExceeds(p.cropOffsetY, p.cropHeight, p.height, ub)

\* ceil(a / b) for a >= 0, b > 0
CeilDiv(a, b) == (a + b - 1) \div b

\* m_frames without the override for steady-state and modulated films
FramesOfNoOverride(p) == CeilDiv(p.maxBound - p.minBound, p.binWidth)

\* m_frames as the constructor leaves it
FramesOf(p) ==
    IF \/ DecompositionOf(p.decomposition) = ESteadyState
       \/ /\ DecompositionOf(p.decomposition) \in {ETransient, ETransientEllipse}
          /\ p.modulated
    THEN 1
    ELSE CeilDiv(p.maxBound - p.minBound, p.binWidth)

\* The first fatal Log(EError) the constructor raises, "none" if it returns.
FilmError(p, ub) ==
    IF InvalidCrop(p, ub) THEN "crop"
    ELSE IF DecompositionOf(p.decomposition) = "invalid" THEN "decomposition"
    ELSE IF p.combinesamplings
            /\ DecompositionOf(p.decomposition) # ETransientEllipse THEN "combine"
    ELSE IF p.adapSampling /\ p.ldSampling THEN "ldAndAdaptive"
    ELSE IF /\ (p.ldSampling \/ p.adapSampling)
            /\ (\/ DecompositionOf(p.decomposition) # ETransientEllipse
                \/ p.modulated) THEN "ldNeedsEllipse"
    ELSE "none"

NoFilm == [err |-> "unbuilt"]

\* nothing was written to a stream yet
NoStream == [bytes |-> <<>>, copy |-> NoFilm, again |-> <<>>,
             config |-> <<>>, configAgain |-> <<>>]

FilmOf(p, ub) ==
    IF FilmError(p, ub) # "none"
    THEN [err |-> FilmError(p, ub)]
    ELSE [err                     |-> "none",
          m_size                  |-> <<p.width, p.height>>,
          m_cropOffset            |-> <<p.cropOffsetX, p.cropOffsetY>>,
          m_cropSize              |-> <<p.cropWidth, p.cropHeight>>,
          m_highQualityEdges      |-> p.highQualityEdges,
          m_decompositionType     |-> DecompositionOf(p.decomposition),
          m_combineBDPTAndElliptic|-> p.combinesamplings,
          m_decompositionMinBound |-> p.minBound,
          m_decompositionMaxBound |-> p.maxBound,
          m_decompositionBinWidth |-> p.binWidth,
          m_isldSampling          |-> p.ldSampling,
          m_isAdaptive            |-> p.adapSampling,
          m_adapMaxSampleFactor   |-> p.adapMaxSampleFactor,
          m_frames                |-> FramesOf(p),
          m_subSamples            |-> p.subSamples,
          modulated               |-> p.modulated,
          m_forceBounces          |-> p.forceBounce,
          m_sBounces              |-> p.sBounce,
          m_tBounces              |-> p.tBounce]


(***************************************************************************)
(*                 Film construction as a state machine                     *)
(***************************************************************************)
FilmWidth    == 2      \* film resolution explored (width = height)
MaxBoundHi   == 3      \* largest maxBound explored
MaxBinWidth  == 2      \* largest binWidth explored

DefaultProps ==
    [width |-> FilmWidth, height |-> FilmWidth,
     cropOffsetX |-> 0, cropOffsetY |-> 0,
     cropWidth |-> FilmWidth, cropHeight |-> FilmWidth,
     highQualityEdges |-> FALSE, subSamples |-> 1,
     decomposition |-> "none", combinesamplings |-> FALSE,
     minBound |-> 0, maxBound |-> 0, binWidth |-> 1,
     ldSampling |-> FALSE, adapSampling |-> FALSE, adapMaxSampleFactor |-> 8,
     modulated |-> FALSE, forceBounce |-> FALSE, sBounce |-> 0, tBounce |-> 0]

\* int values given for the crop offsets and sizes
CropInts == {IntMin, -1, 0, 1, FilmWidth, FilmWidth + 1, IntMax}

CropProps ==
    { [DefaultProps EXCEPT !.cropOffsetX = ox, !.cropOffsetY = oy,
                           !.cropWidth = cw, !.cropHeight = ch] :
        ox \in CropInts, oy \in CropInts, cw \in CropInts, ch \in CropInts }

DecompositionProps ==
    { [DefaultProps EXCEPT !.decomposition = d, !.combinesamplings = c,
                           !.modulated = m, !.ldSampling = ld, !.adapSampling = ad,
                           !.minBound = lo, !.maxBound = hi, !.binWidth = bw] :
        d \in {"none", "transient", "bounce", "transientellipse", "other"},
        c \in BOOLEAN, m \in BOOLEAN, ld \in BOOLEAN, ad \in BOOLEAN,
        lo \in 0..1, hi \in 1..MaxBoundHi, bw \in 1..MaxBinWidth }

FilmProps == CropProps \cup DecompositionProps \cup {DefaultProps}

\* Film::Film(const Properties &props)
Construct ==
    /\ film = NoFilm
    /\ \E ub \in OverflowOutcomes : film' = FilmOf(props, ub)
    /\ UNCHANGED <<props, stream, renderVars, coordVars>>


(***************************************************************************)
(*                 BDPTRenderer: configuration and helpers                  *)
(***************************************************************************)
SPECTRUM_SAMPLES == 3

Pixels        == 2     \* points of the tile's Hilbert curve
MaxVerts      == 3     \* most vertices a random walk puts into one subpath
MaxEdgeLen    == 2     \* longest edge of a subpath
MaxDist       == 2     \* largest distance between two connection endpoints
MaxAdaptive   == 3     \* samples after which the adaptive error test succeeds
PretrainCount == 2     \* nSamples of the pre-process loop (1000 in the code)
MaxSampleCount == 4    \* largest sample count of the sampler
MaxBorder     == 1     \* largest border of the tile's image block

Maximum(a, b) == IF a > b THEN a ELSE b
Minimum(a, b) == IF a < b THEN a ELSE b

Terminal == {"done", "assertFailed", "crash", "fatalSampleCount",
             "fatalProjector", "fatalDirectEllipse"}

NoPaths == [nE |-> 0, nT |-> 0, eEdges |-> <<>>, tEdges |-> <<>>,
            eMeasure |-> <<>>, tMeasure |-> <<>>,
            eSwapped |-> FALSE, tSwapped |-> FALSE]
NoEv    == [s |-> -1, t |-> -1, fake |-> FALSE, laser |-> FALSE,
            maxDepth |-> 0, exhausted |-> TRUE]
NoLast  == [kind |-> "none", why |-> "", s |-> -1, t |-> -1,
            cur |-> "", len |-> -1, bin |-> -1, idx |-> -1]
NoLoop  == [i |-> 0, j |-> 0, n |-> 0, sampleCount |-> 0, samplesPerBin |-> 0,
            target |-> 0, factorNum |-> 0, factorDen |-> 0,
            snapshot |-> {}, blended |-> {}]
NoDepths == [maxDepth |-> 0, emitterDepth |-> 0, sensorDepth |-> 0]

\* The BDPTWorkResult handed to evaluate(): the tile's result, or the
\* pre-process loop's fakeResult built from fakeConfig.
WR(fake) ==
    [type      |-> film.m_decompositionType,
     combine   |-> film.m_combineBDPTAndElliptic,
     minBound  |-> film.m_decompositionMinBound,
     maxBound  |-> film.m_decompositionMaxBound,
     binWidth  |-> IF fake
                   THEN film.m_decompositionMaxBound - film.m_decompositionMinBound
                   ELSE film.m_decompositionBinWidth,
     frames    |-> IF fake THEN 1 ELSE film.m_frames,
     modulated |-> film.modulated,
     force     |-> film.m_forceBounces,
     sBounces  |-> film.m_sBounces,
     tBounces  |-> film.m_tBounces]

\* BDPTWorkResult::getChannelCount(): frames (R,G,B) triples, weight, alpha
ChannelCount(w) == SPECTRUM_SAMPLES * w.frames + 2

(***************************************************************************)
(*                          BDPTRenderer::prepare                           *)
(***************************************************************************)
\* m_sampler->getSampleCount() % m_config.m_frames; division by zero is
\* undefined: the build traps ("trap") or yields the dividend.
Remainders(count, frames) ==
    IF frames = 0
    THEN {[trap |-> TRUE, rem |-> 0], [trap |-> FALSE, rem |-> count]}
    ELSE {[trap |-> FALSE, rem |-> count % frames]}

\* prepare() without the sample-count test
PrepareTargetNoCheck(r) ==
    IF r.trap THEN "crash"
    ELSE IF film.m_frames = 0 THEN "fatalSampleCount"
    ELSE "prepared"

PrepareTarget(r) ==
    IF r.trap THEN "crash"
    ELSE IF (film.m_isldSampling \/ film.m_isAdaptive) /\ r.rem # 0
         THEN "fatalSampleCount"
         ELSE "prepared"

Prepare ==
    /\ pc = "constructed"
    /\ IF film.m_isldSampling \/ film.m_isAdaptive
       THEN \E r \in Remainders(cfg.sampleCount, film.m_frames) :
                pc' = PrepareTarget(r)
       ELSE pc' = "prepared"
    /\ UNCHANGED <<filmVars, cfg, stop, depths, loop, pool, paths, ev, last,
                   drawn, coordVars>>

(***************************************************************************)
(*                   BDPTRenderer::process: set-up                          *)
(***************************************************************************)
\* the loop over the emitters, which reads emitters[0] in every iteration
ProjectorError ==
    /\ Len(cfg.emitters) > 0
    /\ cfg.emitters[1] = "projector"
    /\ cfg.lightImage

\* int maxDepth = m_config.maxDepth; if (TransientEllipse) maxDepth--;
LocalMaxDepth(type) ==
    IF type = ETransientEllipse THEN cfg.maxDepth - 1 ELSE cfg.maxDepth

\* emitterDepth incremented whatever the sensor is
EmitterDepthAlways(maxDepth) ==
    IF maxDepth # -1 THEN maxDepth + 1 ELSE maxDepth

EmitterDepth(maxDepth) ==
    IF ~cfg.degenerateSensor /\ maxDepth # -1 THEN maxDepth + 1 ELSE maxDepth

SensorDepth(maxDepth) ==
    IF ~cfg.degenerateEmitters /\ maxDepth # -1 THEN maxDepth + 1 ELSE maxDepth

ProcessDepths ==
    [maxDepth     |-> LocalMaxDepth(film.m_decompositionType),
     emitterDepth |-> EmitterDepth(LocalMaxDepth(film.m_decompositionType)),
     sensorDepth  |-> SensorDepth(LocalMaxDepth(film.m_decompositionType))]

ProcessBegin ==
    /\ pc = "prepared"
    /\ IF ProjectorError
       THEN /\ pc' = "fatalProjector"
            /\ UNCHANGED <<depths, loop>>
       ELSE /\ depths' = ProcessDepths
            /\ loop' = NoLoop
            /\ pc' = IF film.m_isAdaptive THEN "pretrain" ELSE "pixel"
    /\ drawn' = [p \in 0..(Pixels - 1) |-> 0]
    /\ UNCHANGED <<filmVars, cfg, stop, pool, paths, ev, last, coordVars>>

\* the shared flag is set by the scheduler at any time
SetStop ==
    /\ pc \notin Terminal
    /\ pc # "constructed"
    /\ ~stop
    /\ stop' = TRUE
    /\ UNCHANGED <<filmVars, cfg, pc, depths, loop, pool, paths, ev, last,
                   drawn, coordVars>>

(***************************************************************************)
(*        Path::initialize, alternatingRandomWalkFromPixel, release         *)
(***************************************************************************)
\* most vertices (super-node included) a walk of `depth' steps produces;
\* both endpoints, vertex 0 and vertex 1, are always populated
WalkMax(depth) ==
    IF depth = -1 THEN MaxVerts
    ELSE Minimum(MaxVerts, Maximum(2, depth + 1))

\* edge(1) .. edge(n-2) carry a geometric length; Steady and Bounce never
\* read it
EdgeChoices(n) ==
    IF film.m_decompositionType \in {ETransient, ETransientEllipse}
    THEN [1..(n - 2) -> 1..MaxEdgeLen]
    ELSE {[i \in 1..(n - 2) |-> 1]}

\* PathVertex::measure after the walk: the supernode and the endpoint carry
\* an area measure, a vertex sampled from a BSDF a solid-angle measure
EArea       == "EArea"
ESolidAngle == "ESolidAngle"
WalkedMeasures(n) == [i \in 0..(n - 1) |-> IF i <= 1 THEN EArea ELSE ESolidAngle]

WalkedPaths ==
    UNION { { [nE |-> a, nT |-> b, eEdges |-> ee, tEdges |-> te,
               eMeasure |-> WalkedMeasures(a), tMeasure |-> WalkedMeasures(b),
               eSwapped |-> FALSE, tSwapped |-> FALSE] :
                ee \in EdgeChoices(a), te \in EdgeChoices(b) } :
            a \in 2..WalkMax(depths.emitterDepth),
            b \in 2..WalkMax(depths.sensorDepth) }

\* pool after both subpaths were initialised and walked: one vertex per path
\* vertex, one edge between consecutive vertices
PoolAfterWalk(pl, ps) ==
    [v |-> pl.v + ps.nE + ps.nT, e |-> pl.e + (ps.nE - 1) + (ps.nT - 1)]

\* emitterSubpath.release(m_pool); sensorSubpath.release(m_pool);
PoolAfterRelease(pl, ps) ==
    [v |-> pl.v - ps.nE - ps.nT, e |-> pl.e - (ps.nE - 1) - (ps.nT - 1)]

Unused(pl) == pl.v = 0 /\ pl.e = 0

\* result->samplePathLengthTarget(m_sampler): a length in [Min, Max]
UniformTargets ==
    film.m_decompositionMinBound .. film.m_decompositionMaxBound

\* a target drawn without regard to the bin k
LDTargetsAnyBin(k) ==
    film.m_decompositionMinBound .. film.m_decompositionMaxBound

\* Min + BinWidth*(k) + BinWidth*nextFloat(), k = j % frames or k = j
LDTargets(k) ==
    { film.m_decompositionMinBound + film.m_decompositionBinWidth * k + u :
        u \in 0..(film.m_decompositionBinWidth - 1) }


(***************************************************************************)
(*                    BDPTRenderer::process: the loops                      *)
(***************************************************************************)
\* initialize both subpaths, draw the path-length target, walk; the next
\* step is the call of evaluate()
\* pathLengthTarget is read by the TransientEllipse branches only; it is
\* recorded for that mode alone
RecordedTargets(targets) ==
    IF film.m_decompositionType = ETransientEllipse THEN targets ELSE {0}

StartSample(targets, ret) ==
    /\ \E ps \in WalkedPaths, tg \in RecordedTargets(targets) :
          /\ paths' = ps
          /\ pool' = PoolAfterWalk(pool, ps)
          /\ loop' = [loop EXCEPT !.target = tg]
    /\ pc' = ret

\* for (i < m_hilbertCurve.getPointCount()) { m_sampler->generate(offset);
PixelLoop ==
    /\ pc = "pixel"
    /\ IF loop.i < Pixels
       THEN /\ loop' = [loop EXCEPT !.j = 0]
            /\ pc' = "sample"
       ELSE /\ pc' = "finish"
            /\ UNCHANGED loop
    /\ UNCHANGED <<filmVars, cfg, stop, depths, pool, paths, ev, last, drawn,
                   coordVars>>

\* the sample loop without its test of `stop'
SampleLoopRunsNoStop == loop.j < cfg.sampleCount

\* j < m_sampler->getSampleCount(), and not `if (stop) break;'
SampleLoopRuns == loop.j < cfg.sampleCount /\ ~stop

\* for (j < m_sampler->getSampleCount()) { if (stop) break; ...
SampleLoop ==
    /\ pc = "sample"
    /\ IF SampleLoopRuns
       THEN /\ StartSample(IF ~film.m_isldSampling THEN UniformTargets
                           ELSE LDTargets(loop.j % film.m_frames), "evaluate")
            /\ drawn' = [drawn EXCEPT ![loop.i] = @ + 1]
       ELSE /\ loop' = [loop EXCEPT !.i = @ + 1]
            /\ pc' = "pixel"
            /\ UNCHANGED <<pool, paths, drawn>>
    /\ ev' = [NoEv EXCEPT !.fake = FALSE]
    /\ UNCHANGED <<filmVars, cfg, stop, depths, last, coordVars>>

\* evaluate() returned to the non-adaptive loop: release both subpaths,
\* m_sampler->advance(), ++j
SampleReturn ==
    /\ pc = "evaluated"
    /\ ~film.m_isAdaptive
    /\ pool' = PoolAfterRelease(pool, paths)
    /\ paths' = NoPaths
    /\ loop' = [loop EXCEPT !.j = @ + 1]
    /\ pc' = "sample"
    /\ UNCHANGED <<filmVars, cfg, stop, depths, ev, last, drawn, coordVars>>

\* the pre-process loop: for (i < nSamples), no test of `stop'
PretrainLoop ==
    /\ pc = "pretrain"
    /\ IF loop.n < PretrainCount
       THEN /\ StartSample(UniformTargets, "evaluate")
            /\ ev' = [NoEv EXCEPT !.fake = TRUE]
       ELSE \* size_t samplesPerBin = getSampleCount() / m_frames
            /\ loop' = [loop EXCEPT !.samplesPerBin =
                                        cfg.sampleCount \div film.m_frames,
                                    !.i = 0]
            /\ pc' = "apixel"
            /\ ev' = NoEv
            /\ UNCHANGED <<pool, paths>>
    /\ UNCHANGED <<filmVars, cfg, stop, depths, last, drawn, coordVars>>

\* evaluate(fakeResult, ...) returned: release both subpaths, next i
PretrainReturn ==
    /\ pc = "evaluated"
    /\ film.m_isAdaptive
    /\ ev.fake
    /\ pool' = PoolAfterRelease(pool, paths)
    /\ paths' = NoPaths
    /\ loop' = [loop EXCEPT !.n = @ + 1]
    /\ pc' = "pretrain"
    /\ UNCHANGED <<filmVars, cfg, stop, depths, ev, last, drawn, coordVars>>

\* adaptive: for (i < getPointCount()) { generate(offset);
AdaptivePixelLoop ==
    /\ pc = "apixel"
    /\ IF loop.i < Pixels
       THEN /\ loop' = [loop EXCEPT !.j = 0]
            /\ pc' = "abin"
       ELSE /\ pc' = "finish"
            /\ UNCHANGED loop
    /\ UNCHANGED <<filmVars, cfg, stop, depths, pool, paths, ev, last, drawn,
                   coordVars>>

\* m_hilbertCurve[i] of a tile of Pixels x 1 pixels
HilbertPoint(i) == <<i, 0>>

\* the floats the snapshot loop reads and the blend loop writes:
\* target + ((curve[i].y + y) * rect->getSize().x + (curve[i].x + x))
\*              * channels + j, for x, y < 2 * borderSize + 1
BlockAddresses(i, j) ==
    { ((HilbertPoint(i)[2] + y) * Pixels + (HilbertPoint(i)[1] + x))
          * ChannelCount(WR(FALSE)) + j :
        x \in 0..(2 * cfg.borderSize), y \in 0..(2 * cfg.borderSize) }

\* for (j < m_frames) { snapshot; mean = 0; sampleCount = 0;
AdaptiveBinLoop ==
    /\ pc = "abin"
    /\ IF loop.j < film.m_frames
       THEN /\ loop' = [loop EXCEPT !.sampleCount = 0,
                                    !.snapshot = BlockAddresses(loop.i, loop.j)]
            /\ pc' = "awhile"
       ELSE /\ loop' = [loop EXCEPT !.i = @ + 1]
            /\ pc' = "apixel"
    /\ UNCHANGED <<filmVars, cfg, stop, depths, pool, paths, ev, last, drawn,
                   coordVars>>

\* while (true) { if (stop) break; ... evaluate(result, ...)
AdaptiveSample ==
    /\ pc = "awhile"
    /\ IF stop
       THEN /\ pc' = "ablend"
            /\ UNCHANGED <<pool, paths, loop, drawn>>
       ELSE /\ StartSample(IF ~film.m_isldSampling THEN UniformTargets
                           ELSE LDTargets(loop.j), "evaluate")
            /\ drawn' = [drawn EXCEPT ![loop.i] = @ + 1]
    /\ ev' = [NoEv EXCEPT !.fake = FALSE]
    /\ UNCHANGED <<filmVars, cfg, stop, depths, last, coordVars>>

\* an adaptive loop without the hard cap
HardCapOff(count) == FALSE

\* the hard cap of the adaptive loop
HardCap(count) ==
    /\ film.m_adapMaxSampleFactor >= 0
    /\ count >= film.m_adapMaxSampleFactor * loop.samplesPerBin

\* the relative-error test: meanSqr / (sampleCount-1) is 0/0 after the first
\* sample, and no comparison with NaN holds; afterwards the outcome depends
\* on the sample luminances, which settle after MaxAdaptive samples at most
Converged(count) ==
    IF count <= 1 THEN {FALSE}
    ELSE IF count >= MaxAdaptive THEN {TRUE}
    ELSE BOOLEAN

\* evaluate(result, ...) returned to the adaptive loop: release, advance,
\* sampleCount++, update mean/meanSqr, test the two exits
AdaptiveReturn ==
    /\ pc = "evaluated"
    /\ film.m_isAdaptive
    /\ ~ev.fake
    /\ pool' = PoolAfterRelease(pool, paths)
    /\ paths' = NoPaths
    /\ loop' = [loop EXCEPT !.sampleCount = @ + 1]
    /\ \E conv \in Converged(loop.sampleCount + 1) :
          pc' = IF HardCap(loop.sampleCount + 1) THEN "ablend"
                ELSE IF loop.sampleCount + 1 >= loop.samplesPerBin /\ conv
                     THEN "ablend"
                ELSE "awhile"
    /\ UNCHANGED <<filmVars, cfg, stop, depths, ev, last, drawn, coordVars>>

\* Float factor = samplesPerBin / sampleCount; blend snapshot and target
AdaptiveBlend ==
    /\ pc = "ablend"
    /\ loop' = [loop EXCEPT !.factorNum = loop.samplesPerBin,
                            !.factorDen = loop.sampleCount,
                            !.blended = BlockAddresses(loop.i, loop.j),
                            !.j = @ + 1]
    /\ pc' = "abin"
    /\ UNCHANGED <<filmVars, cfg, stop, depths, pool, paths, ev, last, drawn,
                   coordVars>>

\* Assert(m_pool.unused());
ProcessEnd ==
    /\ pc = "finish"
    /\ pc' = IF Unused(pool) THEN "done" ELSE "assertFailed"
    /\ UNCHANGED <<filmVars, cfg, stop, depths, loop, pool, paths, ev, last,
                   drawn, coordVars>>


(***************************************************************************)
(*                        BDPTRenderer::evaluate                            *)
(***************************************************************************)
\* int minT = std::max(2-s, m_config.lightImage ? 0 : 2)
\* minT that does not look at lightImage
MinTAnyImage(s) == Maximum(2 - s, 0)

MinT(s) == Maximum(2 - s, IF cfg.lightImage THEN 0 ELSE 2)

\* maxT without the depth cap
MaxTUncapped(s, maxDepth) == paths.nT - 1

\* maxT = vertexCount()-1; if (m_config.maxDepth != -1)
\*                             maxT = std::min(maxT, maxDepth + 1 - s);
MaxT(s, maxDepth) ==
    IF cfg.maxDepth # -1
    THEN Minimum(paths.nT - 1, maxDepth + 1 - s)
    ELSE paths.nT - 1

\* the first (s', t) at or below s whose t-range is not empty
RECURSIVE FirstST(_, _)
FirstST(s, maxDepth) ==
    IF s < 0 THEN [s |-> -1, t |-> -1, exhausted |-> TRUE]
    ELSE IF MaxT(s, maxDepth) >= MinT(s)
         THEN [s |-> s, t |-> MaxT(s, maxDepth), exhausted |-> FALSE]
         ELSE FirstST(s - 1, maxDepth)

\* --t within the row, else --s
NextST(s, t, maxDepth) ==
    IF t - 1 >= MinT(s) THEN [s |-> s, t |-> t - 1, exhausted |-> FALSE]
    ELSE FirstST(s - 1, maxDepth)

\* m_pool.allocEdge() twice, m_pool.allocVertex()
PoolAfterEvaluateAlloc(pl) == [v |-> pl.v + 1, e |-> pl.e + 2]

\* a release of the two connection edges that forgets the connection vertex
PoolAfterEvaluateReleaseEdges(pl) == [v |-> pl.v, e |-> pl.e - 2]

\* m_pool.release(connectionEdge1/2); m_pool.release(connectionVertex)
PoolAfterEvaluateRelease(pl) == [v |-> pl.v - 1, e |-> pl.e - 2]

\* !AE->needsPositionSample() && !AE->needsDirectionSample()
IsLaser(emitter) == emitter = "laser"

\* evaluate() up to the (s,t) loops; emitterSubpath.vertex(1) lies on one
\* of the scene's emitters
EvaluateBegin ==
    /\ pc = "evaluate"
    /\ pool' = PoolAfterEvaluateAlloc(pool)
    /\ \E k \in 1..Len(cfg.emitters) :
         LET md    == LocalMaxDepth(WR(ev.fake).type)
             first == FirstST(paths.nE - 1, md)
         IN ev' = [ev EXCEPT !.laser = IsLaser(cfg.emitters[k]),
                             !.maxDepth = md,
                             !.s = first.s, !.t = first.t,
                             !.exhausted = first.exhausted]
    /\ last' = NoLast
    /\ pc' = "st"
    /\ UNCHANGED <<filmVars, cfg, stop, depths, loop, paths, drawn, coordVars>>

RECURSIVE SumEdges(_, _)
SumEdges(edges, k) == IF k <= 0 THEN 0 ELSE edges[k] + SumEdges(edges, k - 1)

\* emitterPathlength[i] / sensorPathlength[i]
Pathlength(w, edges, i) ==
    IF i <= 1 THEN 0
    ELSE IF w.type \in {ETransient, ETransientEllipse} THEN SumEdges(edges, i - 1)
    ELSE IF w.type = EBounce THEN i - 1
    ELSE 0

EmitterPathlength(w, i) == Pathlength(w, paths.eEdges, i)
SensorPathlength(w, i)  == Pathlength(w, paths.tEdges, i)

InBounds(w, len) == len >= w.minBound /\ len <= w.maxBound

\* distance(vs->getPosition(), vt->getPosition()), read in the two
\* transient modes only
Dists(w) ==
    IF w.type \in {ETransient, ETransientEllipse} THEN 0..MaxDist ELSE {0}

Rec(kind, why, s, t, cur, len, bin) ==
    [kind |-> kind, why |-> why, s |-> s, t |-> t, cur |-> cur, len |-> len,
     bin |-> bin, idx |-> IF bin >= 0 THEN bin * SPECTRUM_SAMPLES ELSE -1]

\* size_t binIndex = floor((pathLength - Min) / BinWidth); the conversion
\* of a negative or non-finite quotient is undefined
BinIndexValues(w, len) ==
    IF len < w.minBound \/ w.binWidth = 0
    THEN 0..Maximum(w.frames, 0)
    ELSE {(len - w.minBound) \div w.binWidth}

\* a guard that tests the lower ends only
BinGuardLowerOnly(w, len, binIndex) ==
    /\ len >= w.minBound
    /\ binIndex >= 0

\* the guard of the per-bin write
BinGuard(w, len, binIndex) ==
    /\ len >= w.minBound
    /\ len <= w.maxBound
    /\ binIndex >= 0
    /\ binIndex < w.frames

\* the pixel accumulator / light image branch of the accumulation
PixelGuard(w, cur) ==
    \/ cur = ESteadyState
    \/ (w.type = ETransient /\ w.modulated)

\* the accumulation of a connected candidate with a non-zero value
Accumulate(w, s, t, cur, len) ==
    IF cur # ESteadyState /\ ~(cur = ETransient /\ w.modulated)
    THEN \E binIndex \in BinIndexValues(w, len) :
            last' = IF BinGuard(w, len, binIndex)
                    THEN Rec(IF t >= 2 THEN "bin" ELSE "lightbin", "",
                             s, t, cur, len, binIndex)
                    ELSE Rec("dropped", "outOfRange", s, t, cur, len, -1)
    ELSE last' = IF PixelGuard(w, cur)
                 THEN Rec(IF t >= 2 THEN "pixel" ELSE "light", "",
                          s, t, cur, len, -1)
                 ELSE Rec("dropped", "reclassified", s, t, cur, len, -1)

\* from `int interactions = remaining' to the end of the iteration
Connect(w, s, t, cur, len) ==
    IF cur = ETransientEllipse
    THEN last' = Rec("dropped", "ellipse", s, t, cur, len, -1)
    ELSE \E zero \in BOOLEAN, connected \in BOOLEAN, posOK \in BOOLEAN :
            IF zero THEN last' = Rec("skip", "zero", s, t, cur, len, -1)
            ELSE IF ~connected
                 THEN last' = Rec("skip", "occluded", s, t, cur, len, -1)
            ELSE IF t = 1 /\ ~posOK
                 THEN last' = Rec("skip", "samplePosition", s, t, cur, len, -1)
            ELSE Accumulate(w, s, t, cur, len)

\* pathLength without the edge a Bounce connection adds
FinalLengthNoBounceEdge(w, cur, base, temp) ==
    IF cur = ETransient THEN temp ELSE base

\* pathLength once the current decomposition type is settled
FinalLength(w, cur, base, temp) ==
    IF cur = ETransient THEN temp
    ELSE IF cur = EBounce THEN base + 1
    ELSE base

\* s == 1, t > 1: direct sampling of an emitter position
DirectEmitter(w, s, t) ==
    \E vtDegenerate \in BOOLEAN, zero \in BOOLEAN, d \in Dists(w) :
      LET base == IF w.type # ESteadyState THEN SensorPathlength(w, t) ELSE 0
          temp == IF w.type \in {ETransient, ETransientEllipse}
                  THEN base + d ELSE 0
          cur  == IF w.combine /\ w.type = ETransientEllipse /\ InBounds(w, temp)
                  THEN ETransient ELSE w.type
          remaining == loop.target - EmitterPathlength(w, s)
                                   - SensorPathlength(w, t)
      IN IF vtDegenerate
         THEN last' = Rec("skip", "degenerate", s, t, w.type, 0, -1)
         ELSE IF zero
         THEN last' = Rec("skip", "zero", s, t, w.type, base, -1)
         ELSE IF cur = ETransientEllipse
         THEN IF ~w.combine \/ temp <= w.minBound
              THEN \E sampled \in BOOLEAN :
                     IF remaining < 0 \/ ~sampled
                     THEN last' = Rec("skip", "residual", s, t, cur, base, -1)
                     ELSE Connect(w, s, t, cur, base + remaining)
              ELSE last' = Rec("skip", "overshoot", s, t, cur, base, -1)
         ELSE Connect(w, s, t, cur, FinalLength(w, cur, base, temp))

\* a reclassification that does not ask for combineBDPTAndElliptic
ReclassifyNoCombine(w, temp, rnd) ==
    IF w.type = ETransientEllipse /\ InBounds(w, temp) THEN ETransient
    ELSE w.type

\* the stochastic choice between BDPT and elliptic BDPT
Reclassify(w, temp, rnd) ==
    IF w.combine /\ w.type = ETransientEllipse /\ InBounds(w, temp)
    THEN IF w.modulated
         THEN (IF rnd THEN ETransient ELSE ETransientEllipse)
         ELSE ETransient
    ELSE w.type

Draws(w) == IF w.modulated THEN BOOLEAN ELSE {TRUE}

\* t == 1, s > 1: direct sampling of a sensor position
DirectSensor(w, s, t) ==
    \E vsDegenerate \in BOOLEAN, zero \in BOOLEAN, d \in Dists(w),
       rnd \in Draws(w) :
      LET base == IF w.type # ESteadyState THEN EmitterPathlength(w, s) ELSE 0
          temp == IF w.type \in {ETransient, ETransientEllipse}
                  THEN base + d ELSE 0
          cur  == Reclassify(w, temp, rnd)
      IN IF vsDegenerate
         THEN last' = Rec("skip", "degenerate", s, t, w.type, 0, -1)
         ELSE IF zero
         THEN last' = Rec("skip", "zero", s, t, w.type, base, -1)
         ELSE IF cur = ETransientEllipse
         THEN \* SLog(EError, "Cannot make Direct Ellipsoidal connections")
              last' = Rec("fatal", "directEllipse", s, t, cur, base, -1)
         ELSE Connect(w, s, t, cur, FinalLength(w, cur, base, temp))

\* the connection of two sampled vertices
GeneralConnection(w, s, t) ==
    \E degenerate \in BOOLEAN, zero \in BOOLEAN, d \in Dists(w),
       rnd \in Draws(w) :
      LET base == EmitterPathlength(w, s) + SensorPathlength(w, t)
          temp == IF w.type \in {ETransient, ETransientEllipse}
                  THEN base + d ELSE 0
          cur  == Reclassify(w, temp, rnd)
          remaining == loop.target - EmitterPathlength(w, s)
                                   - SensorPathlength(w, t)
      IN IF degenerate
         THEN last' = Rec("skip", "degenerate", s, t, w.type, 0, -1)
         ELSE IF cur = ETransientEllipse
         THEN IF ~w.combine \/ temp <= w.minBound
              THEN IF ~zero /\ remaining > 0
                   THEN \* EllipsoidalSampleBetween inserts the connection
                        \* vertex and accumulates the sample itself
                        last' = Rec("elliptic", "", s, t, cur,
                                    base + remaining, -1)
                   ELSE last' = Rec("skip", "residual", s, t, cur, base, -1)
              ELSE last' = Rec("skip", "overshoot", s, t, cur, base, -1)
         ELSE Connect(w, s, t, cur, FinalLength(w, cur, base, temp))

\* the skips without the forceBounces test
SkipReasonNoForce(w, s, t, laser) ==
    IF s = 0 \/ t = 0 \/ (w.type = ETransient /\ s = 1 /\ t = 1)
    THEN "endpoint"
    ELSE IF laser /\ w.type = ETransient /\ s = 2 /\ t = 1 THEN "laser"
    ELSE ""

\* the three tests that skip an (s,t) pair before any work is done
SkipReason(w, s, t, laser) ==
    IF s = 0 \/ t = 0 \/ (w.type = ETransient /\ s = 1 /\ t = 1)
    THEN "endpoint"
    ELSE IF laser /\ w.type = ETransient /\ s = 2 /\ t = 1 THEN "laser"
    ELSE IF w.force /\ (s # w.sBounces \/ t # w.tBounces) THEN "forceBounces"
    ELSE ""

UsesDirectSampling(s, t) ==
    cfg.sampleDirect /\ ((t = 1 /\ s > 1) \/ (s = 1 /\ t > 1))

\* vs->measure / vt->measure of a subpath vertex
MeasureOf(p, side, i) == IF side = "E" THEN p.eMeasure[i] ELSE p.tMeasure[i]

SetMeasure(p, side, i, m) ==
    IF side = "E" THEN [p EXCEPT !.eMeasure[i] = m]
    ELSE [p EXCEPT !.tMeasure[i] = m]

\* ~RestoreMeasureHelper(): the vertex captured by the constructor gets the
\* measure it had then
RestoreMeasure(p, side, i, m) == SetMeasure(p, side, i, m)

\* Path::swapEndpoints exchanges vertex(0), edge(0), vertex(1) of the
\* subpath with the three objects handed in
SwapEndpoints(p, side) ==
    IF side = "E" THEN [p EXCEPT !.eSwapped = ~p.eSwapped]
    ELSE [p EXCEPT !.tSwapped = ~p.tSwapped]

\* the iteration reached pathConnectAndCollapse and it succeeded
PastConnect(rec) ==
    \/ rec.kind \in {"bin", "lightbin", "pixel", "light"}
    \/ (rec.kind = "dropped" /\ rec.why \in {"outOfRange", "reclassified"})
    \/ (rec.kind = "skip" /\ rec.why = "samplePosition")

\* the subpath vertices whose measure the iteration forced to EArea; a zero
\* value leaves a direct-sampling branch before or after its assignment
ForcedChoices(rec, s, t, direct) ==
    LET here == IF ~direct THEN {<<"E", s>>, <<"T", t>>}
                ELSE IF s = 1 THEN {<<"T", t>>} ELSE {<<"E", s>>}
    IN IF rec.kind = "fatal" \/ (rec.kind = "skip" /\ rec.why \in
             {"endpoint", "laser", "forceBounces", "degenerate",
              "residual", "overshoot"})
       THEN {{}}
       ELSE IF direct /\ rec.kind = "skip" /\ rec.why = "zero"
       THEN {{}, here}
       ELSE {here}

RECURSIVE ForceAll(_, _)
ForceAll(p, vertices) ==
    IF vertices = {} THEN p
    ELSE LET v == CHOOSE x \in vertices : TRUE
         IN ForceAll(SetMeasure(p, v[1], v[2], EArea), vertices \ {v})

\* an iteration that swaps the endpoints for the MIS weight and does not
\* undo the swap
IterationPathsSwapKept(p, rec, s, t, direct, forced) ==
    IF direct /\ PastConnect(rec)
    THEN SwapEndpoints(p, IF t = 1 THEN "T" ELSE "E")
    ELSE p

\* the subpaths at the end of an iteration that got past the three skips
IterationPaths(p, rec, s, t, direct, forced) ==
    LET vsMeasure == MeasureOf(p, "E", s)
        vtMeasure == MeasureOf(p, "T", t)
        side      == IF t = 1 THEN "T" ELSE "E"
        p1 == ForceAll(p, forced)
        \* the elliptic connector puts the two measures back by hand
        p2 == IF rec.kind = "elliptic"
              THEN SetMeasure(SetMeasure(p1, "E", s, vsMeasure),
                              "T", t, vtMeasure)
              ELSE p1
        p3 == IF direct /\ PastConnect(rec)
              THEN SwapEndpoints(SwapEndpoints(p2, side), side)
              ELSE p2
    IN RestoreMeasure(RestoreMeasure(p3, "T", t, vtMeasure),
                      "E", s, vsMeasure)

\* one iteration of the (s,t) loops
Candidate ==
    /\ pc = "st"
    /\ ~ev.exhausted
    /\ LET w == WR(ev.fake)
           s == ev.s
           t == ev.t
       IN IF SkipReason(w, s, t, ev.laser) # ""
          THEN last' = Rec("skip", SkipReason(w, s, t, ev.laser), s, t,
                           w.type, 0, -1)
          ELSE IF UsesDirectSampling(s, t)
               THEN IF s = 1 THEN DirectEmitter(w, s, t)
                    ELSE DirectSensor(w, s, t)
               ELSE GeneralConnection(w, s, t)
    /\ IF last'.kind = "fatal"
       THEN /\ pc' = "fatalDirectEllipse"
            /\ UNCHANGED ev
       ELSE /\ pc' = "st"
            /\ LET nxt == NextST(ev.s, ev.t, ev.maxDepth)
               IN ev' = [ev EXCEPT !.s = nxt.s, !.t = nxt.t,
                                   !.exhausted = nxt.exhausted]
    /\ IF last'.kind = "skip"
          /\ last'.why \in {"endpoint", "laser", "forceBounces"}
       THEN UNCHANGED paths
       ELSE \E forced \in ForcedChoices(last', ev.s, ev.t,
                                        UsesDirectSampling(ev.s, ev.t)) :
               paths' = IterationPaths(paths, last', ev.s, ev.t,
                                       UsesDirectSampling(ev.s, ev.t), forced)
    /\ UNCHANGED <<filmVars, cfg, stop, depths, loop, pool, drawn, coordVars>>

\* a test that leaves out the modulated TransientEllipse
SingleSpectrumNoEllipse(w) ==
    \/ w.type = ESteadyState
    \/ (w.type = ETransient /\ w.modulated)

\* which putSample ends evaluate()
SingleSpectrum(w) ==
    \/ w.type = ESteadyState
    \/ (w.type \in {ETransient, ETransientEllipse} /\ w.modulated)

\* evaluate() after the (s,t) loops: putSample, release, return
EvaluateEnd ==
    /\ pc = "st"
    /\ ev.exhausted
    /\ last' = IF SingleSpectrum(WR(ev.fake))
               THEN Rec("putSample", "", -1, -1, WR(ev.fake).type, -1, -1)
               ELSE Rec("putSampleBins", "", -1, -1, WR(ev.fake).type, -1, -1)
    /\ pool' = PoolAfterEvaluateRelease(pool)
    /\ pc' = "evaluated"
    /\ UNCHANGED <<filmVars, cfg, stop, depths, loop, paths, ev, drawn,
                   coordVars>>


(***************************************************************************)
(*                     One worker rendering one tile                        *)
(***************************************************************************)
NoCfg == [maxDepth |-> 0, lightImage |-> FALSE, sampleDirect |-> FALSE,
          sampleCount |-> 0, degenerateSensor |-> FALSE,
          degenerateEmitters |-> FALSE, emitters |-> <<>>, borderSize |-> 0]

MaxDepths == {-1, 0, 1, 2, 3}

TransientProps ==
    [DefaultProps EXCEPT !.minBound = 1, !.maxBound = 3, !.binWidth = 1]

\* the decomposition settings a Film accepts without LD / adaptive sampling
ModeProps ==
    { [TransientProps EXCEPT !.decomposition = d, !.combinesamplings = c,
                             !.modulated = m] :
        d \in {"none", "transient", "bounce", "transientellipse"},
        c \in BOOLEAN, m \in BOOLEAN }

BaseCfg == [maxDepth |-> 3, lightImage |-> TRUE, sampleDirect |-> TRUE,
            sampleCount |-> 1, degenerateSensor |-> FALSE,
            degenerateEmitters |-> FALSE, emitters |-> <<"area">>,
            borderSize |-> 0]

\* the depth settings and the endpoint kinds, for every decomposition
DepthRuns ==
    { [p |-> [TransientProps EXCEPT !.decomposition = d],
       c |-> [BaseCfg EXCEPT !.maxDepth = md, !.degenerateSensor = ds,
                             !.degenerateEmitters = de]] :
        d \in {"none", "transient", "bounce", "transientellipse"},
        md \in MaxDepths, ds \in BOOLEAN, de \in BOOLEAN }

\* the routing switches of evaluate()
RoutingRuns ==
    { [p |-> mp,
       c |-> [BaseCfg EXCEPT !.lightImage = li, !.sampleDirect = sd,
                             !.emitters = <<em>>]] :
        mp \in ModeProps, li \in BOOLEAN, sd \in BOOLEAN,
        em \in {"area", "laser"} }

\* the debug mode that fixes (s,t)
ForceRuns ==
    { [p |-> [TransientProps EXCEPT !.decomposition = d, !.forceBounce = TRUE,
                                    !.sBounce = sb, !.tBounce = tb],
       c |-> BaseCfg] :
        d \in {"none", "transient", "bounce", "transientellipse"},
        sb \in 1..2, tb \in 1..2 }

\* the bounds and the bin width of the decomposition
BinRuns ==
    { [p |-> [DefaultProps EXCEPT !.decomposition = d, !.combinesamplings = c,
                                  !.minBound = lo, !.maxBound = hi,
                                  !.binWidth = bw],
       c |-> BaseCfg] :
        d \in {"transient", "bounce", "transientellipse"}, c \in BOOLEAN,
        lo \in 0..1, hi \in 0..MaxBoundHi, bw \in 1..MaxBinWidth }

\* the sampling modes of process()
LDRuns ==
    { [p |-> [DefaultProps EXCEPT !.decomposition = "transientellipse",
                                  !.ldSampling = TRUE,
                                  !.minBound = 0, !.maxBound = hi,
                                  !.binWidth = bw],
       c |-> [BaseCfg EXCEPT !.maxDepth = 2, !.sampleCount = n]] :
        hi \in 0..MaxBoundHi, bw \in 1..MaxBinWidth, n \in 1..MaxSampleCount }

AdaptiveRuns ==
    { [p |-> [DefaultProps EXCEPT !.decomposition = "transientellipse",
                                  !.adapSampling = TRUE,
                                  !.minBound = 0, !.maxBound = hi,
                                  !.binWidth = bw,
                                  !.adapMaxSampleFactor = f],
       c |-> [BaseCfg EXCEPT !.maxDepth = 2, !.sampleCount = n]] :
        hi \in 0..MaxBoundHi, bw \in 1..MaxBinWidth, f \in {-1, 0, 2},
        n \in 1..MaxSampleCount }

\* adaptive sampling with a reconstruction filter that has a border
BorderRuns ==
    { [p |-> [DefaultProps EXCEPT !.decomposition = "transientellipse",
                                  !.adapSampling = TRUE,
                                  !.minBound = 0, !.maxBound = MaxBinWidth,
                                  !.binWidth = 1,
                                  !.adapMaxSampleFactor = 0],
       c |-> [BaseCfg EXCEPT !.maxDepth = 2, !.sampleCount = MaxBinWidth,
                             !.borderSize = b]] :
        b \in 1..MaxBorder }

\* the emitter lists
EmitterRuns ==
    { [p |-> DefaultProps,
       c |-> [BaseCfg EXCEPT !.emitters = em, !.lightImage = li]] :
        em \in {<<"area">>, <<"projector">>, <<"area", "projector">>,
                <<"projector", "area">>},
        li \in BOOLEAN }

Runs == DepthRuns \cup RoutingRuns \cup ForceRuns \cup BinRuns \cup LDRuns
            \cup AdaptiveRuns \cup BorderRuns \cup EmitterRuns

IdleRender ==
    /\ cfg = NoCfg
    /\ pc = "idle"
    /\ stop = FALSE
    /\ depths = NoDepths
    /\ loop = NoLoop
    /\ pool = [v |-> 0, e |-> 0]
    /\ paths = NoPaths
    /\ ev = NoEv
    /\ last = NoLast
    /\ drawn = [p \in 0..(Pixels - 1) |-> 0]

IdleCoord ==
    /\ coord = <<>>
    /\ mutex = <<>>
    /\ thr = <<>>
    /\ results = <<>>

\* the worker is created for a film that was constructed without error
Init ==
    /\ \E r \in Runs, ub \in OverflowOutcomes :
         /\ FilmError(r.p, ub) = "none"
         /\ props = r.p
         /\ film = FilmOf(r.p, ub)
         /\ cfg = r.c
    /\ stream = NoStream
    /\ pc = "constructed"
    /\ stop = FALSE
    /\ depths = NoDepths
    /\ loop = NoLoop
    /\ pool = [v |-> 0, e |-> 0]
    /\ paths = NoPaths
    /\ ev = NoEv
    /\ last = NoLast
    /\ drawn = [p \in 0..(Pixels - 1) |-> 0]
    /\ IdleCoord

Next ==
    \/ Prepare
    \/ ProcessBegin
    \/ SetStop
    \/ PixelLoop
    \/ SampleLoop
    \/ SampleReturn
    \/ PretrainLoop
    \/ PretrainReturn
    \/ AdaptivePixelLoop
    \/ AdaptiveBinLoop
    \/ AdaptiveSample
    \/ AdaptiveReturn
    \/ AdaptiveBlend
    \/ EvaluateBegin
    \/ Candidate
    \/ EvaluateEnd
    \/ ProcessEnd

Spec == Init /\ [][Next]_vars

InitFilm ==
    /\ props \in FilmProps
    /\ film = NoFilm
    /\ stream = NoStream
    /\ IdleRender
    /\ IdleCoord

NextFilm == Construct

SpecFilm == InitFilm /\ [][NextFilm]_vars

(***************************************************************************)
(*   Film::serialize, the stream constructor of Film and the                *)
(*   serialization of BDPTRenderer                                          *)
(***************************************************************************)
MaxSubSamples == 2     \* largest subSamples explored

\* the four bytes of a 32-bit value, least significant first
IntBytes(x) ==
    <<x % 256, (x \div 256) % 256, (x \div 65536) % 256,
      (x \div 16777216) % 256>>

\* the int that four bytes hold
BytesInt(b) ==
    b[1] + 256 * b[2] + 65536 * b[3]
         + 16777216 * (IF b[4] >= 128 THEN b[4] - 256 ELSE b[4])

\* the eight bytes of the size_t an int-range value converts to
SizeBytes(x) ==
    IntBytes(x) \o (IF x < 0 THEN <<255, 255, 255, 255>> ELSE <<0, 0, 0, 0>>)

\* bytes one Stream call transfers
Width(kind) ==
    CASE kind = "Bool"     -> 1
      [] kind = "Int"      -> 4
      [] kind = "UInt"     -> 4
      [] kind = "Float"    -> 4
      [] kind = "Size"     -> 8
      [] kind = "Vector2i" -> 8
      [] kind = "Instance" -> 1

\* writeBool / writeInt / writeUInt / writeFloat / writeSize / TVector2::serialize /
\* InstanceManager::serialize (an instance is written as its id)
Write(kind, v) ==
    CASE kind = "Bool"     -> <<IF v THEN 1 ELSE 0>>
      [] kind = "Int"      -> IntBytes(v)
      [] kind = "UInt"     -> IntBytes(v)
      [] kind = "Float"    -> IntBytes(v)
      [] kind = "Size"     -> SizeBytes(v)
      [] kind = "Vector2i" -> IntBytes(v[1]) \o IntBytes(v[2])
      [] kind = "Instance" -> <<v>>

\* readBool / readInt / readUInt / readFloat / readSize / TVector2 from a stream /
\* InstanceManager::getInstance
Read(kind, b) ==
    CASE kind = "Bool"     -> b[1] # 0
      [] kind = "Int"      -> BytesInt(b)
      [] kind = "UInt"     -> BytesInt(b)
      [] kind = "Float"    -> BytesInt(b)
      [] kind = "Size"     -> BytesInt(SubSeq(b, 1, 4))
      [] kind = "Vector2i" -> <<BytesInt(SubSeq(b, 1, 4)),
                                BytesInt(SubSeq(b, 5, 8))>>
      [] kind = "Instance" -> b[1]

\* the enumerators of EDecompositionType in declaration order
DecompositionOrder == <<ESteadyState, ETransient, EBounce, ETransientEllipse>>

EnumValue(type) ==
    (CHOOSE i \in 1..Len(DecompositionOrder) : DecompositionOrder[i] = type) - 1

EnumOf(v) ==
    IF v \in 0..(Len(DecompositionOrder) - 1) THEN DecompositionOrder[v + 1]
    ELSE "invalid"

\* the fields Film::serialize writes, in order, with the Stream call used
SerializeLayout ==
    << <<"m_size", "Vector2i">>,
       <<"m_cropOffset", "Vector2i">>,
       <<"m_cropSize", "Vector2i">>,
       <<"m_highQualityEdges", "Bool">>,
       <<"m_decompositionType", "UInt">>,
       <<"m_combineBDPTAndElliptic", "Bool">>,
       <<"m_decompositionMinBound", "Float">>,
       <<"m_decompositionMaxBound", "Float">>,
       <<"m_decompositionBinWidth", "Float">>,
       <<"m_frames", "Size">>,
       <<"m_subSamples", "Size">>,
       <<"m_forceBounces", "Bool">>,
       <<"m_sBounces", "UInt">>,
       <<"m_tBounces", "UInt">>,
       <<"m_filter", "Instance">>,
       <<"m_pathLengthSampler", "Instance">> >>

\* a stream constructor that reads m_tBounces before m_sBounces
StreamLayoutSwapped ==
    << <<"m_size", "Vector2i">>,
       <<"m_cropOffset", "Vector2i">>,
       <<"m_cropSize", "Vector2i">>,
       <<"m_highQualityEdges", "Bool">>,
       <<"m_decompositionType", "UInt">>,
       <<"m_combineBDPTAndElliptic", "Bool">>,
       <<"m_decompositionMinBound", "Float">>,
       <<"m_decompositionMaxBound", "Float">>,
       <<"m_decompositionBinWidth", "Float">>,
       <<"m_frames", "Size">>,
       <<"m_subSamples", "Size">>,
       <<"m_forceBounces", "Bool">>,
       <<"m_tBounces", "UInt">>,
       <<"m_sBounces", "UInt">>,
       <<"m_filter", "Instance">>,
       <<"m_pathLengthSampler", "Instance">> >>

\* the fields the stream constructor reads, in order, with the Stream call
StreamLayout ==
    << <<"m_size", "Vector2i">>,
       <<"m_cropOffset", "Vector2i">>,
       <<"m_cropSize", "Vector2i">>,
       <<"m_highQualityEdges", "Bool">>,
       <<"m_decompositionType", "UInt">>,
       <<"m_combineBDPTAndElliptic", "Bool">>,
       <<"m_decompositionMinBound", "Float">>,
       <<"m_decompositionMaxBound", "Float">>,
       <<"m_decompositionBinWidth", "Float">>,
       <<"m_frames", "Size">>,
       <<"m_subSamples", "Size">>,
       <<"m_forceBounces", "Bool">>,
       <<"m_sBounces", "UInt">>,
       <<"m_tBounces", "UInt">>,
       <<"m_filter", "Instance">>,
       <<"m_pathLengthSampler", "Instance">> >>

\* the value a write call is handed for a field
FieldValue(f, name) ==
    CASE name = "m_decompositionType" -> EnumValue(f.m_decompositionType)
      [] name = "m_pathLengthSampler" -> (IF f.modulated THEN 1 ELSE 0)
      [] OTHER                        -> f[name]

RECURSIVE WriteAll(_, _)
WriteAll(f, layout) ==
    IF layout = <<>> THEN <<>>
    ELSE Write(layout[1][2], FieldValue(f, layout[1][1]))
            \o WriteAll(f, Tail(layout))

RECURSIVE ReadAll(_, _)
ReadAll(bytes, layout) ==
    IF layout = <<>> THEN <<>>
    ELSE <<Read(layout[1][2], SubSeq(bytes, 1, Width(layout[1][2])))>>
            \o ReadAll(SubSeq(bytes, Width(layout[1][2]) + 1, Len(bytes)),
                       Tail(layout))

\* the members the stream constructor does not set
Uninitialized == [ld : BOOLEAN, ad : BOOLEAN, factor : {-1, 8}]

\* the stream constructor of Film
StreamFilm(bytes, u) ==
    LET v == ReadAll(bytes, StreamLayout)
        at(name) == v[CHOOSE i \in 1..Len(StreamLayout) :
                          StreamLayout[i][1] = name]
    IN [err                     |-> "none",
        m_size                  |-> at("m_size"),
        m_cropOffset            |-> at("m_cropOffset"),
        m_cropSize              |-> at("m_cropSize"),
        m_highQualityEdges      |-> at("m_highQualityEdges"),
        m_decompositionType     |-> EnumOf(at("m_decompositionType")),
        m_combineBDPTAndElliptic|-> at("m_combineBDPTAndElliptic"),
        m_decompositionMinBound |-> at("m_decompositionMinBound"),
        m_decompositionMaxBound |-> at("m_decompositionMaxBound"),
        m_decompositionBinWidth |-> at("m_decompositionBinWidth"),
        m_frames                |-> at("m_frames"),
        m_subSamples            |-> at("m_subSamples"),
        m_forceBounces          |-> at("m_forceBounces"),
        m_sBounces              |-> at("m_sBounces"),
        m_tBounces              |-> at("m_tBounces"),
        m_filter                |-> at("m_filter"),
        modulated               |-> (at("m_pathLengthSampler") = 1),
        m_isldSampling          |-> u.ld,
        m_isAdaptive            |-> u.ad,
        m_adapMaxSampleFactor   |-> u.factor]

\* the reconstruction filter addChild() gave the film, as an instance id
Filters == {1, 2}

\* Film::serialize of the constructed film
Serialize ==
    /\ film.err = "none"
    /\ stream.bytes = <<>>
    /\ \E flt \in Filters :
         stream' = [stream EXCEPT
                      !.bytes = WriteAll(film @@ [m_filter |-> flt],
                                         SerializeLayout)]
    /\ UNCHANGED <<props, film, renderVars, coordVars>>

Unserialize ==
    /\ stream.bytes # <<>>
    /\ stream.copy.err = "unbuilt"
    /\ \E u \in Uninitialized :
         stream' = [stream EXCEPT !.copy = StreamFilm(stream.bytes, u)]
    /\ UNCHANGED <<props, film, renderVars, coordVars>>

\* Film::serialize of the film that was read back
SerializeCopy ==
    /\ stream.copy.err = "none"
    /\ stream.again = <<>>
    /\ stream' = [stream EXCEPT
                    !.again = WriteAll(stream.copy, SerializeLayout)]
    /\ UNCHANGED <<props, film, renderVars, coordVars>>

\* the members of BDPTConfiguration its serialize() writes
ConfigLayout ==
    << <<"maxDepth", "Int">>, <<"lightImage", "Bool">>,
       <<"sampleDirect", "Bool">> >>

\* BDPTConfiguration::serialize
ConfigSerialize(c) == WriteAll(c, ConfigLayout)

\* the stream constructor of BDPTConfiguration
ConfigStream(bytes) ==
    LET v == ReadAll(bytes, ConfigLayout)
    IN [maxDepth |-> v[1], lightImage |-> v[2], sampleDirect |-> v[3]]

\* BDPTRenderer::serialize: m_config.serialize(stream)
RendererSerialize ==
    /\ stream.config = <<>>
    /\ stream' = [stream EXCEPT !.config = ConfigSerialize(cfg)]
    /\ UNCHANGED <<props, film, renderVars, coordVars>>

\* the stream constructor of BDPTRenderer: m_config(stream), then
\* serialize() of the renderer that was read back
RendererStream ==
    /\ stream.config # <<>>
    /\ stream.configAgain = <<>>
    /\ stream' = [stream EXCEPT
                    !.configAgain = ConfigSerialize(ConfigStream(stream.config))]
    /\ UNCHANGED <<props, film, renderVars, coordVars>>

\* the films and renderer configurations that are serialized
SerialProps ==
    { [DefaultProps EXCEPT !.decomposition = d, !.maxBound = hi,
                           !.highQualityEdges = hq, !.subSamples = ss,
                           !.modulated = m, !.sBounce = sb, !.tBounce = tb] :
        d \in {"none", "transient", "bounce", "transientellipse"},
        hi \in {1, MaxBoundHi}, hq \in BOOLEAN, ss \in 1..MaxSubSamples,
        m \in BOOLEAN, sb \in {IntMin, -1, 2}, tb \in {0, IntMax} }

SerialCfgs == { [BaseCfg EXCEPT !.maxDepth = md, !.lightImage = li] :
                  md \in {-1, 3}, li \in BOOLEAN }

InitSerial ==
    /\ props \in SerialProps
    /\ film = NoFilm
    /\ stream = NoStream
    /\ cfg \in SerialCfgs
    /\ pc = "idle"
    /\ stop = FALSE
    /\ depths = NoDepths
    /\ loop = NoLoop
    /\ pool = [v |-> 0, e |-> 0]
    /\ paths = NoPaths
    /\ ev = NoEv
    /\ last = NoLast
    /\ drawn = [p \in 0..(Pixels - 1) |-> 0]
    /\ IdleCoord

NextSerial ==
    \/ Construct
    \/ Serialize
    \/ Unserialize
    \/ SerializeCopy
    \/ RendererSerialize
    \/ RendererStream

SpecSerial == InitSerial /\ [][NextSerial]_vars

(***************************************************************************)
(*        BDPTProcess: processResult() and develop() on several threads     *)
(***************************************************************************)
NumThreads  == 2     \* threads that deliver results or develop the film
MaxResults  == 3     \* work results delivered during the render
MaxDevelops == 2     \* develop() calls made from outside processResult()

Threads == 1..NumThreads

\* Mutex of the framework: a recursive lock (owner and hold count)
FreeMutex == [owner |-> 0, count |-> 0]

CanLock(m, t) == m.owner = 0 \/ m.owner = t

Lock(m, t) == [owner |-> t, count |-> m.count + 1]

Unlock(m) ==
    IF m.count = 1 THEN FreeMutex ELSE [m EXCEPT !.count = m.count - 1]

IdleThread == [pc |-> "idle", wr |-> 0, cancelled |-> FALSE, nested |-> FALSE]

\* the pcs at which the next statement reads or writes m_film or m_result
FilmAccess  == {"pr_film", "dev_film"}
LightAccess == {"pr_light", "dev_film"}

\* a processResult() that reduces cancelled results too
ProcessResultTargetAll(c) == "pr_lock"

\* if (cancelled) return;
ProcessResultTarget(c) == IF c THEN "idle" ELSE "pr_lock"

\* processResult(wr, cancelled)
ProcessResult ==
    \E t \in Threads, r \in 1..MaxResults, c \in BOOLEAN :
        /\ thr[t].pc = "idle"
        /\ results[r] = "pending"
        /\ \A q \in 1..(r - 1) : results[q] # "pending"
        /\ results' = [results EXCEPT ![r] = IF c THEN "cancelled" ELSE "taken"]
        /\ thr' = [thr EXCEPT ![t] = [pc        |-> ProcessResultTarget(c),
                                      wr        |-> r,
                                      cancelled |-> c,
                                      nested    |-> FALSE]]
        /\ UNCHANGED <<coord, mutex>>
        /\ UNCHANGED <<filmVars, renderVars>>

\* a processResult() that goes on without taking m_resultMutex
ProcessResultNoLock ==
    \E t \in Threads :
        /\ thr[t].pc = "pr_lock"
        /\ thr' = [thr EXCEPT ![t].pc = "pr_count"]
        /\ UNCHANGED <<coord, mutex, results, filmVars, renderVars>>

\* LockGuard lock(m_resultMutex) of processResult()
ProcessResultLock ==
    \E t \in Threads :
        /\ thr[t].pc = "pr_lock"
        /\ CanLock(mutex, t)
        /\ mutex' = Lock(mutex, t)
        /\ thr' = [thr EXCEPT ![t].pc = "pr_count"]
        /\ UNCHANGED <<coord, results, filmVars, renderVars>>

\* m_progress->update(++m_resultCount)
ProcessResultCount ==
    \E t \in Threads :
        /\ thr[t].pc = "pr_count"
        /\ coord' = [coord EXCEPT !.m_resultCount = coord.m_resultCount + 1,
                                  !.progress = coord.m_resultCount + 1]
        /\ thr' = [thr EXCEPT ![t].pc = "pr_light"]
        /\ UNCHANGED <<mutex, results, filmVars, renderVars>>

\* if (m_config.lightImage) m_result->put(result) and the preview blend
ProcessResultLight ==
    \E t \in Threads :
        /\ thr[t].pc = "pr_light"
        /\ coord' = IF coord.lightImage
                    THEN [coord EXCEPT !.light = coord.light \cup {thr[t].wr}]
                    ELSE coord
        /\ thr' = [thr EXCEPT ![t].pc = "pr_film"]
        /\ UNCHANGED <<mutex, results, filmVars, renderVars>>

\* m_film->put(block)
ProcessResultFilm ==
    \E t \in Threads :
        /\ thr[t].pc = "pr_film"
        /\ coord' = [coord EXCEPT !.film = coord.film \cup {thr[t].wr}]
        /\ thr' = [thr EXCEPT ![t].pc = "pr_signal"]
        /\ UNCHANGED <<mutex, results, filmVars, renderVars>>

\* developFilm, signalWorkEnd, the nested develop() call
ProcessResultSignal ==
    \E t \in Threads, elapsed \in BOOLEAN :
        LET developFilm == coord.lightImage /\ coord.interactive /\ elapsed
        IN /\ thr[t].pc = "pr_signal"
           /\ coord' = [coord EXCEPT !.workEnd = coord.workEnd \cup {thr[t].wr}]
           /\ thr' = [thr EXCEPT ![t].pc = IF developFilm THEN "dev"
                                           ELSE "pr_return",
                                 ![t].nested = developFilm]
           /\ UNCHANGED <<mutex, results, filmVars, renderVars>>

\* the end of processResult(): the LockGuard releases m_resultMutex
ProcessResultReturn ==
    \E t \in Threads :
        /\ thr[t].pc = "pr_return"
        /\ mutex' = Unlock(mutex)
        /\ thr' = [thr EXCEPT ![t] = IdleThread]
        /\ UNCHANGED <<coord, results, filmVars, renderVars>>

\* develop() called by the render job or the user interface
DevelopCall ==
    \E t \in Threads :
        /\ thr[t].pc = "idle"
        /\ coord.develops < MaxDevelops
        /\ coord' = [coord EXCEPT !.develops = coord.develops + 1]
        /\ thr' = [thr EXCEPT ![t] = [IdleThread EXCEPT !.pc = "dev"]]
        /\ UNCHANGED <<mutex, results, filmVars, renderVars>>

\* where develop() returns to
AfterDevelop(t) == IF thr[t].nested THEN "pr_return" ELSE "idle"

\* `if (!m_config.lightImage) return;' and LockGuard lock(m_resultMutex)
DevelopEnterBy(t) ==
    /\ thr[t].pc = "dev"
    /\ IF coord.lightImage
       THEN /\ CanLock(mutex, t)
            /\ mutex' = Lock(mutex, t)
            /\ thr' = [thr EXCEPT ![t].pc = "dev_film"]
       ELSE /\ mutex' = mutex
            /\ thr' = [thr EXCEPT ![t].pc = AfterDevelop(t),
                                  ![t].nested = FALSE]
    /\ UNCHANGED <<coord, results, filmVars, renderVars>>

DevelopEnter == \E t \in Threads : DevelopEnterBy(t)

\* m_film->setBitmap(...) and m_film->addBitmap(lightImage, 1/sampleCount)
DevelopFilm ==
    \E t \in Threads :
        /\ thr[t].pc = "dev_film"
        /\ coord' = [coord EXCEPT !.developed = coord.film \cup coord.light]
        /\ thr' = [thr EXCEPT ![t].pc = "dev_signal"]
        /\ UNCHANGED <<mutex, results, filmVars, renderVars>>

\* m_refreshTimer->reset(), signalRefresh, and the LockGuard's release
DevelopReturn ==
    \E t \in Threads :
        /\ thr[t].pc = "dev_signal"
        /\ coord' = [coord EXCEPT !.timerResets = coord.timerResets + 1,
                                  !.refreshes = coord.refreshes + 1]
        /\ mutex' = Unlock(mutex)
        /\ thr' = [thr EXCEPT ![t].pc = AfterDevelop(t), ![t].nested = FALSE]
        /\ UNCHANGED <<results, filmVars, renderVars>>

InitCoord ==
    /\ props = DefaultProps
    /\ film = NoFilm
    /\ stream = NoStream
    /\ IdleRender
    /\ \E li \in BOOLEAN, ia \in BOOLEAN :
         coord = [lightImage |-> li, interactive |-> ia,
                  m_resultCount |-> 0, progress |-> 0,
                  film |-> {}, light |-> {}, workEnd |-> {}, developed |-> {},
                  timerResets |-> 0, refreshes |-> 0, develops |-> 0]
    /\ mutex = FreeMutex
    /\ thr = [t \in Threads |-> IdleThread]
    /\ results = [r \in 1..MaxResults |-> "pending"]

NextCoord ==
    \/ ProcessResult
    \/ ProcessResultLock
    \/ ProcessResultCount
    \/ ProcessResultLight
    \/ ProcessResultFilm
    \/ ProcessResultSignal
    \/ ProcessResultReturn
    \/ DevelopCall
    \/ DevelopEnter
    \/ DevelopFilm
    \/ DevelopReturn

SpecCoord == InitCoord /\ [][NextCoord]_vars

(***************************************************************************)
(*                              Properties                                  *)
(***************************************************************************)
\* process() is between ProcessBegin and its return
DepthsSet ==
    pc \in {"pixel", "sample", "pretrain", "apixel", "abin", "awhile",
            "ablend", "evaluate", "st", "evaluated", "finish", "done",
            "assertFailed", "fatalDirectEllipse"}

\* the positions of process() outside a path sample
SampleBoundary ==
    pc \in {"pixel", "sample", "pretrain", "apixel", "abin", "awhile",
            "ablend", "finish", "done"}

\* C1: at every pixel-sample boundary of process() (the sample loop, the
\* pre-process loop, the adaptive loop, with or without `stop') the pool
\* holds no vertex and no edge; when evaluate() returns, only the two
\* subpaths are outstanding, and the final assertion never fails.
C1_PoolBalance ==
    /\ SampleBoundary => Unused(pool)
    /\ pc = "evaluated" => /\ pool.v = paths.nE + paths.nT
                           /\ pool.e = (paths.nE - 1) + (paths.nT - 1)
    /\ pc # "assertFailed"

C1_Witness ==
    /\ pc = "awhile"
    /\ stop
    /\ last.kind \in {"putSample", "putSampleBins"}
    /\ loop.sampleCount >= 1
    /\ Unused(pool)

\* the last (s,t) iteration wrote a time bin of the buffer of evaluate()
BinWritten == pc = "st" /\ last.kind \in {"bin", "lightbin"}

\* C2: a contribution added to a time bin has Min <= l <= Max and goes to
\* bin k = floor((l - Min)/BinWidth), 0 <= k < frames, at the buffer indices
\* 3k..3k+2 below the two trailing channels; a candidate dropped by the
\* guard has its length or its bin outside those ranges.
C2_BinRange ==
    LET w == WR(ev.fake)
    IN /\ BinWritten =>
            /\ w.minBound <= last.len
            /\ last.len <= w.maxBound
            /\ w.binWidth > 0
            /\ last.bin = (last.len - w.minBound) \div w.binWidth
            /\ 0 <= last.bin
            /\ last.bin < w.frames
            /\ last.idx = SPECTRUM_SAMPLES * last.bin
            /\ last.idx + (SPECTRUM_SAMPLES - 1) < ChannelCount(w) - 2
            /\ (last.kind = "bin") = (last.t >= 2)
       /\ (pc = "st" /\ last.why = "outOfRange" /\ w.binWidth > 0) =>
            \/ last.len < w.minBound
            \/ last.len > w.maxBound
            \/ (last.len - w.minBound) \div w.binWidth >= w.frames

C2_Witness ==
    /\ BinWritten
    /\ last.kind = "lightbin"
    /\ last.bin >= 1
    /\ last.bin = WR(ev.fake).frames - 1

\* the last (s,t) iteration committed a path
Committed ==
    pc = "st" /\ last.kind \in {"bin", "lightbin", "pixel", "light", "elliptic"}

\* vertices of the committed path, super-nodes not counted
CommittedVertices == last.s + last.t + (IF last.kind = "elliptic" THEN 1 ELSE 0)

EndpointIntersection == ~cfg.degenerateSensor \/ ~cfg.degenerateEmitters

\* C3 (as stated): with a bounded maxDepth a committed path has at most
\* maxDepth vertices, maxDepth + 1 when endpoint intersection is enabled.
C3_DepthCapStated ==
    (Committed /\ cfg.maxDepth # -1) =>
        CommittedVertices <= cfg.maxDepth + (IF EndpointIntersection THEN 1 ELSE 0)

\* C3 (amended): with a bounded maxDepth a committed path has at most
\* maxDepth + 1 vertices (s + t, plus the inserted connection vertex in
\* TransientEllipse), whether or not the endpoints can be intersected.
C3_DepthCap ==
    (Committed /\ cfg.maxDepth # -1) => CommittedVertices <= cfg.maxDepth + 1

C3_Witness ==
    /\ Committed
    /\ cfg.maxDepth # -1
    /\ ~EndpointIntersection
    /\ CommittedVertices = cfg.maxDepth + 1
    /\ paths.nE - 1 + paths.nT - 1 > cfg.maxDepth + 1

\* maxDepth as process() and evaluate() use it
ReducedMaxDepth ==
    IF film.m_decompositionType = ETransientEllipse THEN cfg.maxDepth - 1
    ELSE cfg.maxDepth

\* C4: emitterDepth <= maxDepth (+1 only if the sensor is intersectable),
\* sensorDepth <= maxDepth (+1 only if the emitters are intersectable), with
\* maxDepth reduced by one in TransientEllipse; evaluate() bounds t with the
\* same reduced maxDepth.
C4_WalkDepths ==
    DepthsSet =>
        /\ depths.maxDepth = ReducedMaxDepth
        /\ depths.emitterDepth <=
               ReducedMaxDepth + (IF cfg.degenerateSensor THEN 0 ELSE 1)
        /\ depths.sensorDepth <=
               ReducedMaxDepth + (IF cfg.degenerateEmitters THEN 0 ELSE 1)
        /\ pc = "st" =>
               /\ ev.maxDepth = ReducedMaxDepth
               /\ (cfg.maxDepth # -1 /\ ~ev.exhausted) =>
                      ev.t <= ReducedMaxDepth + 1 - ev.s

C4_Witness ==
    /\ pc = "st"
    /\ ~ev.exhausted
    /\ film.m_decompositionType = ETransientEllipse
    /\ cfg.degenerateSensor
    /\ ~cfg.degenerateEmitters
    /\ cfg.maxDepth = 2
    /\ depths.emitterDepth = 1
    /\ depths.sensorDepth = 2
    /\ ev.s + ev.t = 2

\* a step that starts a path sample
StartsSample == pc # "evaluate" /\ pc' = "evaluate"

\* C5 (as stated): once stop is set no new path sample is started, in the
\* sample loop, the adaptive loop and the pre-process loop alike.
C5_StopStated == [][stop => ~StartsSample]_vars

\* C5 (amended): the sample loop and the adaptive loop test stop before
\* every path sample and leave the loop when it is set; only the
\* pre-process loop of adaptive sampling starts samples with stop set.
C5_StopPolled ==
    [][/\ (stop /\ StartsSample) => pc = "pretrain"
       /\ (stop /\ pc = "sample") => (pc' = "pixel" /\ drawn' = drawn)
       /\ (stop /\ pc = "awhile") => (pc' = "ablend" /\ drawn' = drawn)]_vars

C5_Witness ==
    /\ stop
    /\ pc = "done"
    /\ drawn[0] >= 1
    /\ drawn[0] < cfg.sampleCount
    /\ drawn[1] = 0

\* results the scheduler delivered with cancelled = false
Taken == {r \in 1..MaxResults : results[r] = "taken"}

\* C6: a result delivered with cancelled = true is discarded: it reaches
\* neither the film nor the light image, is not counted, signals no work
\* end and resets no timer; every effect on the coordinator stems from a
\* result that was not cancelled or from a develop() call.
C6_CancelledDiscarded ==
    /\ \A r \in 1..MaxResults :
          results[r] = "cancelled" =>
              /\ r \notin coord.film
              /\ r \notin coord.light
              /\ r \notin coord.workEnd
              /\ \A t \in Threads : thr[t].wr = r => thr[t].pc = "idle"
    /\ coord.m_resultCount <= Cardinality(Taken)
    /\ coord.progress <= Cardinality(Taken)
    /\ coord.timerResets <= coord.develops + Cardinality(Taken)
    /\ coord.refreshes = coord.timerResets

C6_Witness ==
    /\ results[1] = "taken"
    /\ results[2] = "cancelled"
    /\ results[3] = "taken"
    /\ coord.film = {1, 3}
    /\ coord.m_resultCount = 2
    /\ \A t \in Threads : thr[t].pc = "idle"

\* thread t is between the acquisition and the release of a LockGuard
InReduction(t) ==
    thr[t].pc \in {"pr_count", "pr_light", "pr_film", "pr_signal", "pr_return",
                   "dev_film", "dev_signal"}
        \/ (thr[t].pc = "dev" /\ thr[t].nested)

\* C7: every read or write of the film and of the light image by
\* processResult() and develop() is made by the owner of m_resultMutex, no
\* two threads are inside a reduction or a develop at once, and the nested
\* develop() of processResult() can always take the mutex.
C7_Serialized ==
    /\ \A t \in Threads :
          thr[t].pc \in (FilmAccess \cup LightAccess \cup {"pr_count"}) =>
              mutex.owner = t
    /\ \A t \in Threads, u \in Threads :
          (InReduction(t) /\ InReduction(u)) => t = u
    /\ \A t \in Threads :
          (thr[t].pc = "dev" /\ thr[t].nested) => ENABLED DevelopEnterBy(t)

C7_Witness ==
    /\ thr[1].pc = "dev_film"
    /\ thr[1].nested
    /\ mutex = [owner |-> 1, count |-> 2]
    /\ thr[2].pc = "pr_lock"

\* sampleCount is not an integral multiple of frames
NotMultiple ==
    IF film.m_frames = 0 THEN cfg.sampleCount # 0
    ELSE cfg.sampleCount % film.m_frames # 0

\* C8 (as stated): with LD or adaptive sampling and a sample count that is
\* not an integral multiple of frames prepare() raises the fatal
\* configuration error; otherwise it raises none.
C8_SampleCountStated ==
    pc # "constructed" =>
        IF (film.m_isldSampling \/ film.m_isAdaptive) /\ NotMultiple
        THEN pc = "fatalSampleCount"
        ELSE pc # "fatalSampleCount" /\ pc # "crash"

\* C9 (as stated): in a completed tile rendered with LD or adaptive sampling
\* every pixel drew a multiple of frames path samples.
C9_MultipleStated ==
    (pc = "done" /\ ~stop /\ (film.m_isldSampling \/ film.m_isAdaptive)) =>
        \A p \in 0..(Pixels - 1) : drawn[p] % film.m_frames = 0

\* C9 (amended): in a completed tile rendered with LD sampling every pixel
\* drew sampleCount path samples, an integral multiple of frames; adaptive
\* sampling draws a data-dependent number of samples for each bin.
C9_MultipleLD ==
    (pc = "done" /\ ~stop /\ film.m_isldSampling) =>
        \A p \in 0..(Pixels - 1) :
            /\ drawn[p] = cfg.sampleCount
            /\ film.m_frames > 0
            /\ drawn[p] % film.m_frames = 0

C9_Witness ==
    /\ pc = "done"
    /\ ~stop
    /\ film.m_isldSampling
    /\ film.m_frames = 2
    /\ \A p \in 0..(Pixels - 1) : drawn[p] = 2 * film.m_frames

\* the crop window lies within the film
CropWithinFilm(p) ==
    /\ p.cropOffsetX >= 0
    /\ p.cropOffsetY >= 0
    /\ p.cropWidth > 0
    /\ p.cropHeight > 0
    /\ p.cropWidth <= p.width
    /\ p.cropHeight <= p.height
    /\ p.cropOffsetX <= p.width - p.cropWidth
    /\ p.cropOffsetY <= p.height - p.cropHeight

\* C10 (as stated): the constructor raises the crop-window error exactly
\* when the crop window does not lie within the film, for all int values.
C10_CropStated ==
    film # NoFilm => ((film.err = "crop") <=> ~CropWithinFilm(props))

\* n is the ceiling of (Max - Min) / BinWidth, BinWidth > 0
IsCeiling(n, p) ==
    /\ n * p.binWidth >= p.maxBound - p.minBound
    /\ (n - 1) * p.binWidth < p.maxBound - p.minBound

\* C11 (as stated): frames = 1 whenever the decomposition is steady-state
\* or modulation is enabled, for any decomposition type, and
\* ceil((Max - Min)/BinWidth) otherwise.
C11_FramesStated ==
    (film # NoFilm /\ film.err = "none") =>
        IF film.m_decompositionType = ESteadyState \/ props.modulated
        THEN film.m_frames = 1
        ELSE IsCeiling(film.m_frames, props)

\* C11 (amended): frames = 1 when the decomposition is steady-state, or is
\* Transient or TransientEllipse with modulation enabled; otherwise (Bounce
\* with modulation included) frames = ceil((Max - Min)/BinWidth).
C11_Frames ==
    (film # NoFilm /\ film.err = "none") =>
        IF \/ film.m_decompositionType = ESteadyState
           \/ /\ props.modulated
              /\ film.m_decompositionType \in {ETransient, ETransientEllipse}
        THEN film.m_frames = 1
        ELSE IsCeiling(film.m_frames, props)

C11_Witness ==
    /\ film # NoFilm
    /\ film.err = "none"
    /\ film.m_decompositionType = EBounce
    /\ props.modulated
    /\ props.maxBound - props.minBound = 3
    /\ props.binWidth = 2
    /\ film.m_frames = 2

\* the last (s,t) iteration of the running evaluate() has been recorded
IterationDone == pc \in {"st", "fatalDirectEllipse"} /\ last.kind # "none"

\* C12: the current decomposition type of a candidate is the configured
\* type, or Transient in place of TransientEllipse when
\* combineBDPTAndElliptic is on and the candidate's own length lies in
\* [Min, Max]; without combineBDPTAndElliptic no candidate is reclassified,
\* and a reclassification is decided for each candidate anew.
C12_Reclassification ==
    IterationDone =>
        \/ last.cur = WR(ev.fake).type
        \/ /\ WR(ev.fake).type = ETransientEllipse
           /\ WR(ev.fake).combine
           /\ last.cur = ETransient
           /\ InBounds(WR(ev.fake), last.len)

C12_Witness ==
    /\ IterationDone
    /\ WR(ev.fake).type = ETransientEllipse
    /\ WR(ev.fake).combine
    /\ last.cur = ETransient
    /\ last.kind = "bin"
    /\ last.s = 1
    /\ last.t = 2

\* the last (s,t) iteration reached the guard of the per-bin write
BinTested ==
    /\ pc = "st"
    /\ \/ last.kind \in {"bin", "lightbin"}
       \/ (last.kind = "dropped" /\ last.why = "outOfRange")

\* C13: in Bounce mode the length that bins a connected (s,t) candidate is
\* s + t - 1, its number of edges, in the s = 1 and t = 1 direct-sampling
\* branches and in the general connection alike; a written bin k holds
\* paths of floor((s + t - 1 - Min)/BinWidth) = k only.
C13_BounceLength ==
    (BinTested /\ WR(ev.fake).type = EBounce) =>
        /\ last.len = last.s + last.t - 1
        /\ last.kind \in {"bin", "lightbin"} =>
               last.bin = (last.s + last.t - 1 - WR(ev.fake).minBound)
                              \div WR(ev.fake).binWidth

C13_Witness ==
    /\ BinTested
    /\ WR(ev.fake).type = EBounce
    /\ last.kind = "bin"
    /\ last.s = 2
    /\ last.t = 2
    /\ last.len = 3
    /\ last.bin = 1

\* edges of the committed path, the edges to the super-nodes not counted
CommittedEdges == CommittedVertices - 1

Forced == IterationDone /\ WR(ev.fake).force

\* C14 (as stated): with forceBounces only (sBounces, tBounces) is
\* evaluated, and for (2,2) only 4-edge paths contribute.
C14_ForceStated ==
    Forced =>
        /\ (last.s # WR(ev.fake).sBounces \/ last.t # WR(ev.fake).tBounces) =>
               last.kind = "skip"
        /\ (Committed /\ WR(ev.fake).sBounces = 2 /\ WR(ev.fake).tBounces = 2) =>
               CommittedEdges = 4

\* C14 (amended): with forceBounces every (s,t) pair other than
\* (sBounces, tBounces) is skipped before any work, so only that strategy
\* commits; a committed path has sBounces + tBounces - 1 edges (3 edges, 4
\* vertices, for (2,2)), one more when TransientEllipse inserts a vertex.
C14_Force ==
    Forced =>
        /\ (last.s # WR(ev.fake).sBounces \/ last.t # WR(ev.fake).tBounces) =>
               /\ last.kind = "skip"
               /\ last.why \in {"endpoint", "laser", "forceBounces"}
        /\ Committed =>
               /\ last.s = WR(ev.fake).sBounces
               /\ last.t = WR(ev.fake).tBounces
               /\ CommittedEdges = WR(ev.fake).sBounces + WR(ev.fake).tBounces - 1
                                     + (IF last.kind = "elliptic" THEN 1 ELSE 0)

C14_Witness ==
    /\ Forced
    /\ Committed
    /\ WR(ev.fake).sBounces = 2
    /\ WR(ev.fake).tBounces = 2
    /\ last.s = 2
    /\ last.t = 2
    /\ CommittedEdges = 3

\* the sample loop of an LD-stratified tile starts its next path sample
StartsLDSample ==
    pc = "sample" /\ pc' = "evaluate" /\ film.m_isldSampling

\* samples j < n of one pixel whose target is drawn for bin k
SamplesOfBin(n, k) == {j \in 0..(n - 1) : j % film.m_frames = k}

\* C15: in non-adaptive LD mode the j-th sample of a pixel (j counts the
\* samples already drawn for it) gets a target in
\* [Min + BinWidth*(j mod frames), Min + BinWidth*(j mod frames + 1)), and
\* over a completed pixel every bin receives sampleCount/frames targets.
C15_LDTargets ==
    /\ [][StartsLDSample =>
             /\ drawn[loop.i] = loop.j
             /\ drawn'[loop.i] = loop.j + 1
             /\ loop'.target >= film.m_decompositionMinBound
                  + film.m_decompositionBinWidth * (loop.j % film.m_frames)
             /\ loop'.target < film.m_decompositionMinBound
                  + film.m_decompositionBinWidth * ((loop.j % film.m_frames) + 1)
          ]_vars
    /\ [](( /\ film # NoFilm
            /\ film.err = "none"
            /\ film.m_isldSampling
            /\ ~stop
            /\ pc \in {"pixel", "finish", "done"}) =>
            \A p \in 0..(loop.i - 1), k \in 0..(film.m_frames - 1) :
                Cardinality(SamplesOfBin(drawn[p], k))
                    = cfg.sampleCount \div film.m_frames)

C15_Witness ==
    /\ pc = "evaluate"
    /\ film.m_isldSampling
    /\ film.m_frames = 2
    /\ film.m_decompositionBinWidth = 2
    /\ loop.i = 1
    /\ loop.j = 3
    /\ loop.target = film.m_decompositionMinBound + 3

\* the adaptive while loop of one (pixel, bin) is running or just left
InAdaptiveLoop ==
    /\ film # NoFilm
    /\ film.err = "none"
    /\ film.m_isAdaptive
    /\ \/ pc \in {"awhile", "ablend"}
       \/ (pc \in {"evaluate", "st", "evaluated"} /\ ~ev.fake)

CapSamples == film.m_adapMaxSampleFactor * loop.samplesPerBin

\* C16 (as stated): for every adapMaxSampleFactor the adaptive loop of a
\* bin ends after at most adapMaxSampleFactor * samplesPerBin samples.
C16_AdaptiveStated == InAdaptiveLoop => loop.sampleCount <= CapSamples

\* C16 (amended): with adapMaxSampleFactor >= 0 the loop of a bin ends as
\* soon as sampleCount >= adapMaxSampleFactor * samplesPerBin, tested after
\* each sample: at most max(1, adapMaxSampleFactor * samplesPerBin) samples
\* are drawn; a negative factor disables the cap. Without stop the loop is
\* left only on the cap or with sampleCount >= samplesPerBin.
C16_AdaptiveExits ==
    InAdaptiveLoop =>
        /\ film.m_adapMaxSampleFactor >= 0 =>
               loop.sampleCount <= Maximum(1, CapSamples)
        /\ (pc = "awhile" /\ film.m_adapMaxSampleFactor >= 0) =>
               (loop.sampleCount = 0 \/ loop.sampleCount < CapSamples)
        /\ (pc = "ablend" /\ ~stop) =>
               \/ /\ film.m_adapMaxSampleFactor >= 0
                  /\ loop.sampleCount >= CapSamples
               \/ loop.sampleCount >= loop.samplesPerBin
        /\ loop.samplesPerBin * film.m_frames = cfg.sampleCount

C16_Witness ==
    /\ InAdaptiveLoop
    /\ pc = "ablend"
    /\ ~stop
    /\ film.m_adapMaxSampleFactor = 2
    /\ loop.samplesPerBin = 1
    /\ loop.sampleCount = 2

\* process() went past the loop over the emitters
PastEmitterLoop == pc \notin {"idle", "constructed", "prepared",
                              "fatalSampleCount", "crash"}

AnyProjector == \E k \in 1..Len(cfg.emitters) : cfg.emitters[k] = "projector"

\* C17 (as stated): with lightImage on and a projector emitter at any
\* position of the emitter list, process() ends in the fatal 'Set lightImage
\* to be false' error and renders nothing.
C17_ProjectorStated ==
    (cfg # NoCfg /\ PastEmitterLoop /\ cfg.lightImage /\ AnyProjector)
        => pc = "fatalProjector"

\* the last candidate used direct sampling and got to the connection still
\* classified TransientEllipse
DirectEllipse ==
    /\ last.kind # "none"
    /\ UsesDirectSampling(last.s, last.t)
    /\ last.cur = ETransientEllipse
    /\ last.why \notin {"endpoint", "laser", "forceBounces", "degenerate",
                        "zero"}

\* C18 (as stated): a direct-sampled candidate (s = 1 or t = 1) that is
\* still TransientEllipse where the connection would be made ends
\* evaluate() in the fatal 'Cannot make Direct Ellipsoidal connections'
\* error, in the s = 1 branch as in the t = 1 branch.
C18_DirectEllipseStated ==
    DirectEllipse => (last.kind = "fatal" /\ pc = "fatalDirectEllipse")

\* the direct-BDPT length of the next candidate without its connecting edge
CandidateBase(w, s, t) ==
    IF UsesDirectSampling(s, t)
    THEN (IF s = 1 THEN SensorPathlength(w, t) ELSE EmitterPathlength(w, s))
    ELSE EmitterPathlength(w, s) + SensorPathlength(w, t)

\* the next candidate is TransientEllipse with combineBDPTAndElliptic and
\* modulation, and its direct-BDPT length lies in [Min, Max] whatever the
\* connecting edge
ModulatedInBounds ==
    /\ pc = "st"
    /\ ~ev.exhausted
    /\ SkipReason(WR(ev.fake), ev.s, ev.t, ev.laser) = ""
    /\ WR(ev.fake).type = ETransientEllipse
    /\ WR(ev.fake).combine
    /\ WR(ev.fake).modulated
    /\ \A d \in Dists(WR(ev.fake)) :
          InBounds(WR(ev.fake), CandidateBase(WR(ev.fake), ev.s, ev.t) + d)

\* the candidate got to the reclassification and left it as type cur
ReclassifiedAs(cur) ==
    /\ Candidate
    /\ last'.why \notin {"degenerate", "zero"}
    /\ last'.cur = cur

\* C20 (as stated): under modulation the reclassification of an in-bounds
\* candidate depends on one random draw, so the candidate can become
\* Transient and can stay TransientEllipse, in the s = 1 direct branch, the
\* t = 1 direct branch and the general branch alike.
C20_ReclassifyStated ==
    ModulatedInBounds =>
        /\ ENABLED ReclassifiedAs(ETransient)
        /\ ENABLED ReclassifiedAs(ETransientEllipse)

\* C19: writing a Film, reading it back with the stream constructor and
\* writing it again yields the same bytes, and so does the renderer's
\* configuration; the film read back has the values of every field that was
\* written.
C19_RoundTrip ==
    /\ stream.again # <<>> =>
          /\ stream.again = stream.bytes
          /\ \A i \in 1..Len(SerializeLayout) :
                SerializeLayout[i][1] # "m_filter" =>
                   FieldValue(stream.copy, SerializeLayout[i][1])
                       = FieldValue(film, SerializeLayout[i][1])
    /\ stream.configAgain # <<>> => stream.configAgain = stream.config

C19_Witness ==
    /\ stream.again # <<>>
    /\ stream.configAgain # <<>>
    /\ Len(stream.again) = 69
    /\ film.m_sBounces < 0
    /\ film.m_tBounces = IntMax
    /\ film.m_frames = MaxBoundHi
    /\ stream.copy.m_isldSampling # film.m_isldSampling
    /\ cfg.maxDepth = -1

\* the last candidate was connected with a non-zero value and got to the
\* accumulation
Connected ==
    /\ pc = "st"
    /\ \/ last.kind \in {"bin", "lightbin", "pixel", "light"}
       \/ (last.kind = "dropped" /\ last.why \in {"reclassified", "outOfRange"})

\* the length falls into one of the frames bins of [Min, Max]
InSomeBin(w, len) ==
    /\ InBounds(w, len)
    /\ w.binWidth > 0
    /\ (len - w.minBound) \div w.binWidth < w.frames

\* C21 (as stated): a connected candidate that is Steady, or Transient with
\* modulation (also when reclassified from TransientEllipse), goes to the
\* pixel accumulator (t >= 2) or the light image (t = 1); every other
\* connected candidate goes to its bin when its length is in range.
C21_RoutingStated ==
    Connected =>
        IF \/ last.cur = ESteadyState
           \/ (last.cur = ETransient /\ WR(ev.fake).modulated)
        THEN last.kind = (IF last.t >= 2 THEN "pixel" ELSE "light")
        ELSE InSomeBin(WR(ev.fake), last.len) =>
                last.kind = (IF last.t >= 2 THEN "bin" ELSE "lightbin")

\* the work result's configuration is one where Film forces frames to 1
FramesForced(w) ==
    \/ w.type = ESteadyState
    \/ (w.type \in {ETransient, ETransientEllipse} /\ w.modulated)

PutKinds == {"putSample", "putSampleBins"}

\* C22: an evaluate() call that gets through its (s,t) loops commits one
\* pixel sample, at its end and nowhere else: the single-spectrum putSample
\* exactly when the configuration is one where Film forces frames to 1, the
\* per-bin putSample otherwise.
C22_OneCommit ==
    [][ /\ (pc' = "evaluated" /\ pc # "evaluated") =>
              /\ pc = "st"
              /\ ev.exhausted
              /\ last'.kind = (IF FramesForced(WR(ev.fake)) THEN "putSample"
                               ELSE "putSampleBins")
              /\ FramesForced(WR(ev.fake)) => WR(ev.fake).frames = 1
        /\ (pc = "st" /\ pc' = "st") => last'.kind \notin PutKinds
        /\ (pc = "st" /\ pc' # "st") =>
              pc' \in {"evaluated", "fatalDirectEllipse"}
      ]_vars

C22_Witness ==
    /\ pc = "evaluated"
    /\ last.kind = "putSample"
    /\ film.m_decompositionType = ETransientEllipse
    /\ film.modulated
    /\ film.m_frames = 1

\* the three colour channels of bin j of every pixel within borderSize of
\* pixel i, in an image block whose rows include the borders
Footprint(i, j) ==
    { ((HilbertPoint(i)[2] + y) * (Pixels + 2 * cfg.borderSize)
          + (HilbertPoint(i)[1] + x)) * ChannelCount(WR(FALSE))
          + SPECTRUM_SAMPLES * j + c :
        x \in 0..(2 * cfg.borderSize), y \in 0..(2 * cfg.borderSize),
        c \in 0..(SPECTRUM_SAMPLES - 1) }

\* C23 (as stated): for pixel p and bin j the snapshot and the blend touch
\* exactly the three colour channels of bin j of every pixel within
\* borderSize of p, addressed with the row stride of the bordered block.
C23_FootprintStated ==
    /\ InAdaptiveLoop => loop.snapshot = Footprint(loop.i, loop.j)
    /\ (film # NoFilm /\ film.err = "none" /\ film.m_isAdaptive
            /\ pc = "abin" /\ loop.j > 0) =>
          loop.blended = Footprint(loop.i, loop.j - 1)

\* the last candidate had the connection vertex inserted by the elliptic
\* connector
ConnectorRan ==
    /\ pc = "st"
    /\ \/ last.kind = "elliptic"
       \/ (last.kind = "dropped" /\ last.why = "ellipse")

\* Le + Ls of the last candidate
SubpathLengths ==
    EmitterPathlength(WR(ev.fake), last.s) + SensorPathlength(WR(ev.fake), last.t)

\* C24 (as stated): in every branch the elliptic connector runs only with a
\* residual R = pathLengthTarget - Le - Ls > 0 and, with
\* combineBDPTAndElliptic, only for a candidate whose direct length, which
\* is at least Le + Ls, does not exceed Min.
C24_ResidualStated ==
    ConnectorRan =>
        /\ loop.target - SubpathLengths > 0
        /\ WR(ev.fake).combine => SubpathLengths <= WR(ev.fake).minBound

\* the (s,t) loops have just gone through the pair (last.s, last.t)
PairVisited == pc = "st" /\ last.kind # "none"

\* the pairs evaluate() leaves out before any work
LeftOut(s, t) ==
    \/ s = 0
    \/ t = 0
    \/ (WR(ev.fake).type = ETransient /\ s = 1 /\ t = 1)
    \/ (ev.laser /\ WR(ev.fake).type = ETransient /\ s = 2 /\ t = 1)

\* C25: a pair with s = 0 or t = 0, the pair (1,1) in Transient mode and
\* the pair (2,1) in Transient mode with a laser emitter are skipped and
\* contribute nothing; every pair the loops visit has
\* max(2-s, lightImage ? 0 : 2) <= t <= maxT, so a pair with t = 1 is
\* visited only when lightImage is on.
C25_SkippedPairs ==
    PairVisited =>
        /\ LeftOut(last.s, last.t) => last.kind = "skip"
        /\ Committed => (last.s >= 1 /\ last.t >= 1)
        /\ last.t >= Maximum(2 - last.s, IF cfg.lightImage THEN 0 ELSE 2)
        /\ last.t <= paths.nT - 1
        /\ last.t <= 1 => cfg.lightImage

C25_Witness ==
    /\ PairVisited
    /\ ev.laser
    /\ last.s = 2
    /\ last.t = 1
    /\ last.kind = "skip"
    /\ last.why = "laser"

\* an iteration of the (s,t) loops that got past the three skips
IterationStep == pc = "st" /\ ~ev.exhausted /\ pc' \in {"st", "fatalDirectEllipse"}

\* C26: each (s,t) iteration of evaluate() leaves both subpaths as it found
\* them, on every exit path: the endpoint swap made for a direct-sampled
\* strategy is undone after the MIS weight, and every vertex measure forced
\* to EArea is back at its previous value.
C26_SubpathsRestored ==
    [][IterationStep => paths' = paths]_vars

\* a direct-sampled sensor connection that forced vs->measure, swapped and
\* un-swapped the sensor endpoints and then left through the last continue
C26_Witness ==
    /\ pc = "st"
    /\ last.kind = "skip"
    /\ last.why = "samplePosition"
    /\ UsesDirectSampling(last.s, last.t)
    /\ last.s >= 2
    /\ paths.eMeasure[last.s] = ESolidAngle
    /\ ~paths.tSwapped

\* C27 (as stated): the caps handed to the random walk are -1 exactly when
\* the configured maxDepth is -1, in every decomposition mode; a bounded
\* maxDepth never yields the unbounded cap and an unbounded one never
\* yields another negative cap.
C27_SentinelStated ==
    DepthsSet =>
        /\ (depths.emitterDepth = -1) <=> (cfg.maxDepth = -1)
        /\ (depths.sensorDepth = -1) <=> (cfg.maxDepth = -1)
        /\ depths.emitterDepth >= -1
        /\ depths.sensorDepth >= -1

\* C28 (as stated): every Film the property constructor accepts has
\* frames >= 1, also with minBound = maxBound and a non-steady
\* decomposition, so that neither `sampleCount % frames' in prepare() nor
\* `sampleCount / frames' in process() divides by zero.
C28_FramesStated ==
    /\ film.err = "none" => film.m_frames >= 1
    /\ pc # "crash"

\* C29 (as stated): whenever the adaptive loop of a (pixel, bin) has
\* finished and the blend is applied, 1 <= samplesPerBin <= sampleCount, so
\* the factor samplesPerBin / sampleCount is well defined and in (0, 1],
\* also when stop was set before the first sample and when
\* adapMaxSampleFactor is 0.
C29_FactorStated ==
    pc = "ablend" =>
        /\ 1 <= loop.samplesPerBin
        /\ loop.samplesPerBin <= loop.sampleCount

\* a path sample of the adaptive while loop is being evaluated
AdaptiveSampleDrawn ==
    /\ pc \in {"evaluate", "st", "evaluated"}
    /\ film.m_isAdaptive
    /\ ~ev.fake

\* C30 (as stated): in adaptive mode every sample the inner loop draws for
\* time bin j has its pathLengthTarget inside bin j, that is in
\* [Min + j*BinWidth, Min + (j+1)*BinWidth).
C30_TargetStated ==
    AdaptiveSampleDrawn =>
        /\ loop.target >= film.m_decompositionMinBound
                              + loop.j * film.m_decompositionBinWidth
        /\ loop.target < film.m_decompositionMinBound
                              + (loop.j + 1) * film.m_decompositionBinWidth

=============================================================================
